---- MODULE Spec2Model ----
(***************************************************************************)
(* Model of the RAGBase ai-worker core: the chunk merger, the quality      *)
(* analyzer and the pipeline orchestrator (apps/ai-worker/src).            *)
(*                                                                         *)
(* A Python str is a sequence of one-character strings.  A dict is a       *)
(* record; a key that may be absent is a field with a distinguished value. *)
(***************************************************************************)
EXTENDS Integers, Sequences, FiniteSets, TLC

VARIABLES
    pc,          \* position of the modelled call
    chunks,      \* merge_small_chunks: the caller's list of fragment dicts
    passed,      \* history: the value of that list when the call was made
    min_chars,   \* merge_small_chunks: argument
    max_chars,   \* merge_small_chunks: argument
    result,      \* merge_small_chunks: the returned list
    analyzer,    \* QualityAnalyzer: the thresholds of the instance
    an_chunk,    \* analyze: the chunk argument
    quality,     \* analyze: the returned dict
    markdown,    \* run: argument
    category,    \* run: argument
    config,      \* ProcessingPipeline.config (ProfileConfig)
    fragments,   \* history: what chunker.chunk returned
    work,        \* run: the local list "chunks"
    embedder,    \* history of the calls made to the embedder
    run_result,  \* run: what the call returned or raised
    text_in,     \* MarkdownNormalizer: the markdown argument
    normalized,  \* normalize(text_in)
    renormalized, \* normalize(normalized)
    relined,     \* merge_soft_linebreaks(text_in)
    pdf_processor, \* the PDFProcessor instance and the calls of process() on it
    request      \* a /process request or a queue job, and how it was answered

mergeVars == <<chunks, passed, min_chars, max_chars, result>>
analyzeVars == <<analyzer, an_chunk, quality>>
runVars == <<markdown, category, config, fragments, work, embedder, run_result>>
normVars == <<text_in, normalized, renormalized, relined>>
svcVars == <<pdf_processor, request>>
vars == <<pc, mergeVars, analyzeVars, runVars, normVars, svcVars>>

-----------------------------------------------------------------------------
(* Bounds of the model.                                                    *)

\* longest input list handed to merge_small_chunks
MaxChunks == 3
\* longest run of letters in the body of one input fragment
MaxBody == 3
\* largest max_chars argument tried
MaxMaxChars == 6
\* longest content handed to analyze()
MaxAnalyzeLen == 3
\* most blocks (document), sheets (tabular) or slides (presentation) of a
\* markdown handed to run()
MaxSections == 2
\* most pieces of a markdown handed to normalize()
MaxPieces == 4
\* most lines of a markdown handed to merge_soft_linebreaks()
MaxLines == 3

-----------------------------------------------------------------------------
(* Python str helpers.                                                     *)

NL == "\n"
SEP == <<NL, NL>>
\* the backtick character (a TLA+ string cannot hold it)
TICK == "tick"

\* str.isspace() on one character of the model's alphabet
IsSpace(c) == c \in {" ", NL}

RECURSIVE LStrip(_)
LStrip(s) == IF s # <<>> /\ IsSpace(Head(s)) THEN LStrip(Tail(s)) ELSE s

RECURSIVE RStrip(_)
RStrip(s) ==
    IF s # <<>> /\ IsSpace(s[Len(s)]) THEN RStrip(SubSeq(s, 1, Len(s) - 1)) ELSE s

\* str.strip()
Strip(s) == RStrip(LStrip(s))

\* position of the first "\n" in s, or 0
RECURSIVE FirstNL(_, _)
FirstNL(s, i) ==
    IF i > Len(s) THEN 0 ELSE IF s[i] = NL THEN i ELSE FirstNL(s, i + 1)

\* str.split("\n"): always at least one line
RECURSIVE SplitLines(_)
SplitLines(s) ==
    LET k == FirstNL(s, 1) IN
    IF k = 0 THEN <<s>>
    ELSE <<SubSeq(s, 1, k - 1)>> \o SplitLines(SubSeq(s, k + 1, Len(s)))

\* sep.join(parts)
RECURSIVE Join(_, _)
Join(sep, parts) ==
    IF parts = <<>> THEN <<>>
    ELSE IF Len(parts) = 1 THEN parts[1]
    ELSE parts[1] \o sep \o Join(sep, Tail(parts))

-----------------------------------------------------------------------------
(* Fragment dicts.                                                         *)

\* the value of metadata["index"] when the key is absent
NoIndex == -1

\* a fragment dict: ref is the identity of the dict object (the position of
\* the input dict it is, 0 for a dict created by the merger); hasMeta tells
\* whether the "metadata" key is present.
Frag(ref, content, hasMeta, breadcrumbs, index) ==
    [ref |-> ref, content |-> content, hasMeta |-> hasMeta,
     breadcrumbs |-> breadcrumbs, index |-> index]

-----------------------------------------------------------------------------
(* ProcessingPipeline._strip_breadcrumb_prefix                             *)

\* index of the first line at or after start that is not blank, else Len+1
RECURSIVE SkipBlankLines(_, _)
SkipBlankLines(lines, start) ==
    IF start <= Len(lines) /\ Strip(lines[start]) = <<>>
    THEN SkipBlankLines(lines, start + 1)
    ELSE start

_strip_breadcrumb_prefix(content) ==
    LET lines == SplitLines(content) IN
    IF lines[1] # <<>> /\ Head(lines[1]) = ">"
    THEN LET start == SkipBlankLines(lines, 2) IN
         Join(<<NL>>, SubSeq(lines, start, Len(lines)))
    ELSE content

-----------------------------------------------------------------------------
(* ProcessingPipeline.merge_small_chunks                                   *)

\* combined_len <= max_chars, combined_len = a + 2 + b  ("+2 for \n\n")
FitsNoSeparator(a, b, maxc) == a + b <= maxc
Fits(a, b, maxc) == a + 2 + b <= maxc

\* a chunk counts as normal-sized
IsNormal(len, minc) == len >= minc

\* chunk.get("metadata", {}).copy()
CopyMeta(chunk) ==
    [empty |-> ~chunk.hasMeta, breadcrumbs |-> chunk.breadcrumbs,
     index |-> chunk.index]

\* {"content": acc_content, "metadata": acc_metadata or {"breadcrumbs": []}}
NewChunk(acc_content, acc_metadata) ==
    IF acc_metadata.empty
    THEN Frag(0, acc_content, TRUE, <<>>, NoIndex)
    ELSE Frag(0, acc_content, TRUE, acc_metadata.breadcrumbs, acc_metadata.index)

\* result[-1]["content"] += "\n\n" + acc_content
PrependToPrevious(res, acc_content) ==
    [res EXCEPT ![Len(res)].content = acc_content \o SEP \o @]
AppendToPrevious(res, acc_content) ==
    [res EXCEPT ![Len(res)].content = @ \o SEP \o acc_content]

\* the flush of an accumulator that could not be combined: on its own when
\* it is big enough, else appended to the previous emitted chunk when that
\* fits, else on its own undersized
FlushDropsUndersized(res, acc_content, acc_metadata, minc, maxc) ==
    IF Len(acc_content) >= minc
    THEN Append(res, NewChunk(acc_content, acc_metadata))
    ELSE IF res # <<>>
            /\ Len(res[Len(res)].content) + 2 + Len(acc_content) <= maxc
    THEN [res EXCEPT ![Len(res)].content = @ \o SEP \o acc_content]
    ELSE res
FlushAccumulator(res, acc_content, acc_metadata, minc, maxc) ==
    IF Len(acc_content) >= minc
    THEN Append(res, NewChunk(acc_content, acc_metadata))
    ELSE IF res # <<>>
    THEN IF Fits(Len(res[Len(res)].content), Len(acc_content), maxc)
         THEN AppendToPrevious(res, acc_content)
         ELSE Append(res, NewChunk(acc_content, acc_metadata))
    ELSE Append(res, NewChunk(acc_content, acc_metadata))

NoAcc == [empty |-> TRUE, breadcrumbs |-> <<>>, index |-> NoIndex]

\* Case 1: a normal-sized chunk
NormalChunk(st, chunk, minc, maxc) ==
    LET content == chunk.content
        acc_len == Len(st.acc_content)
    IN  IF acc_len > 0
        THEN IF Fits(acc_len, Len(content), maxc)
             THEN [result |-> Append(st.result,
                        [chunk EXCEPT !.content = st.acc_content \o SEP \o content]),
                   acc_content |-> <<>>, acc_metadata |-> NoAcc]
             ELSE [result |-> Append(
                        FlushAccumulator(st.result, st.acc_content,
                                         st.acc_metadata, minc, maxc),
                        chunk),
                   acc_content |-> <<>>, acc_metadata |-> NoAcc]
        ELSE [st EXCEPT !.result = Append(st.result, chunk)]

\* the check that flushes an accumulator that reached min_chars
FlushWhenExceeded(st, minc) ==
    IF Len(st.acc_content) > minc
    THEN [result |-> Append(st.result, NewChunk(st.acc_content, st.acc_metadata)),
          acc_content |-> <<>>, acc_metadata |-> NoAcc]
    ELSE st
FlushWhenReached(st, minc) ==
    IF Len(st.acc_content) >= minc
    THEN [result |-> Append(st.result, NewChunk(st.acc_content, st.acc_metadata)),
          acc_content |-> <<>>, acc_metadata |-> NoAcc]
    ELSE st

\* Case 2: a small chunk is accumulated
SmallChunk(st, chunk, minc, maxc) ==
    LET stripped == _strip_breadcrumb_prefix(chunk.content)
        acc_len == Len(st.acc_content)
    IN  IF Strip(stripped) = <<>> THEN st
        ELSE IF acc_len = 0
        THEN FlushWhenReached(
                [st EXCEPT !.acc_content = stripped,
                           !.acc_metadata = CopyMeta(chunk)], minc)
        ELSE IF Fits(acc_len, Len(stripped), maxc)
        THEN FlushWhenReached(
                [st EXCEPT !.acc_content = @ \o SEP \o stripped], minc)
        ELSE FlushWhenReached(
                [result |-> FlushAccumulator(st.result, st.acc_content,
                                             st.acc_metadata, minc, maxc),
                 acc_content |-> stripped,
                 acc_metadata |-> CopyMeta(chunk)], minc)

\* one iteration of "for chunk in chunks"
MergeStep(st, chunk, minc, maxc) ==
    IF IsNormal(Len(chunk.content), minc)
    THEN NormalChunk(st, chunk, minc, maxc)
    ELSE SmallChunk(st, chunk, minc, maxc)

RECURSIVE MergeLoop(_, _, _, _, _)
MergeLoop(st, cs, i, minc, maxc) ==
    IF i > Len(cs) THEN st
    ELSE MergeLoop(MergeStep(st, cs[i], minc, maxc), cs, i + 1, minc, maxc)

\* "Handle leftover accumulator"
LeftoverStandalone(st, minc, maxc) ==
    IF st.acc_content # <<>>
    THEN Append(st.result, NewChunk(st.acc_content, st.acc_metadata))
    ELSE st.result
Leftover(st, minc, maxc) ==
    IF st.acc_content # <<>>
    THEN FlushAccumulator(st.result, st.acc_content, st.acc_metadata, minc, maxc)
    ELSE st.result

\* "Re-index chunks after merge"
Reindex(res) ==
    [i \in 1..Len(res) |-> [res[i] EXCEPT !.hasMeta = TRUE, !.index = i - 1]]

\* the whole function: the list it returns
merge_small_chunks(cs, minc, maxc) ==
    IF Len(cs) <= 1 THEN cs
    ELSE Reindex(Leftover(
            MergeLoop([result |-> <<>>, acc_content |-> <<>>, acc_metadata |-> NoAcc],
                      cs, 1, minc, maxc),
            minc, maxc))

\* the caller's dict objects after the call: an input dict that was put in
\* the result was rewritten in place (content, metadata.index)
AfterCall(cs, res) ==
    [i \in 1..Len(cs) |->
        IF \E j \in 1..Len(res) : res[j].ref = i
        THEN res[CHOOSE j \in 1..Len(res) : res[j].ref = i]
        ELSE cs[i]]

-----------------------------------------------------------------------------
(* QualityAnalyzer.analyze                                                 *)
(* Floats are kept exactly: penalty_per_flag and the returned score are    *)
(* counted in hundredths.                                                  *)

\* str.startswith / str.endswith
StartsWith(s, t) == Len(s) >= Len(t) /\ SubSeq(s, 1, Len(t)) = t
EndsWith(s, t) == Len(s) >= Len(t) /\ SubSeq(s, Len(s) - Len(t) + 1, Len(s)) = t

Max2(a, b) == IF a >= b THEN a ELSE b
Min2(a, b) == IF a <= b THEN a ELSE b

\* round(num / den) to the nearest integer, ties to even (den > 0)
RoundDiv(num, den) ==
    LET q == num \div den
        r == num - q * den
    IN  IF 2 * r < den THEN q
        ELSE IF 2 * r > den THEN q + 1
        ELSE IF q % 2 = 0 THEN q ELSE q + 1

\* the result an analyzer returns when nothing was analyzed yet
NoQuality ==
    [flags |-> <<>>, score |-> 0, char_count |-> 0, has_title |-> FALSE,
     completeness |-> "none"]

\* base_quality = max(0.0, 1.0 - flag_penalty), in hundredths
BaseQualityNoFloor(penalty, nflags) == 100 - penalty * nflags
BaseQuality(penalty, nflags) == Max2(0, 100 - penalty * nflags)

\* ends_properly
EndsProperly(stripped) ==
    \/ stripped[Len(stripped)] \in {".", "!", "?", ":", ">"}
    \/ EndsWith(stripped, <<TICK, TICK, TICK>>)

\* the flags of a non-blank text, in the order the checks append them
FlagListInclusive(cfg, stripped, breadcrumbs) ==
    LET char_count == Len(stripped)
        has_title == StartsWith(stripped, <<"#">>) \/ StartsWith(stripped, <<">">>)
    IN  (IF char_count <= cfg.min_chars THEN <<"TOO_SHORT">> ELSE <<>>)
        \o (IF char_count >= cfg.max_chars THEN <<"TOO_LONG">> ELSE <<>>)
        \o (IF ~has_title /\ Len(breadcrumbs) = 0 THEN <<"NO_CONTEXT">> ELSE <<>>)
        \o (IF ~EndsProperly(stripped) THEN <<"FRAGMENT">> ELSE <<>>)
FlagList(cfg, stripped, breadcrumbs) ==
    LET char_count == Len(stripped)
        has_title == StartsWith(stripped, <<"#">>) \/ StartsWith(stripped, <<">">>)
    IN  (IF char_count < cfg.min_chars THEN <<"TOO_SHORT">> ELSE <<>>)
        \o (IF char_count > cfg.max_chars THEN <<"TOO_LONG">> ELSE <<>>)
        \o (IF ~has_title /\ Len(breadcrumbs) = 0 THEN <<"NO_CONTEXT">> ELSE <<>>)
        \o (IF ~EndsProperly(stripped) THEN <<"FRAGMENT">> ELSE <<>>)

\* the weighted score, rounded to two decimals, in hundredths:
\* base*0.40 + length*0.30 + context*0.20 + completeness*0.10
ScoreLengthUncapped(cfg, char_count, nflags, has_context, ends_properly) ==
    LET base == BaseQuality(cfg.penalty_per_flag, nflags)
        context == IF has_context THEN 100 ELSE 50
        completeness == IF ends_properly THEN 100 ELSE 70
        thousandths_times_ideal ==
            4 * base * cfg.ideal_length
            + 300 * char_count
            + 2 * context * cfg.ideal_length
            + completeness * cfg.ideal_length
    IN  RoundDiv(thousandths_times_ideal, 10 * cfg.ideal_length)
Score(cfg, char_count, nflags, has_context, ends_properly) ==
    LET base == BaseQuality(cfg.penalty_per_flag, nflags)
        context == IF has_context THEN 100 ELSE 50
        completeness == IF ends_properly THEN 100 ELSE 70
        \* length_score = min(1.0, char_count / ideal_length)
        thousandths_times_ideal ==
            4 * base * cfg.ideal_length
            + 300 * Min2(cfg.ideal_length, char_count)
            + 2 * context * cfg.ideal_length
            + completeness * cfg.ideal_length
    IN  RoundDiv(thousandths_times_ideal, 10 * cfg.ideal_length)

analyze(cfg, content, breadcrumbs) ==
    LET stripped == Strip(content) IN
    IF stripped = <<>>
    THEN [flags |-> <<"EMPTY">>, score |-> 0, char_count |-> 0,
          has_title |-> FALSE, completeness |-> "empty"]
    ELSE LET flags == FlagList(cfg, stripped, breadcrumbs)
             has_title == StartsWith(stripped, <<"#">>)
                          \/ StartsWith(stripped, <<">">>)
             ends_properly == EndsProperly(stripped)
             hasFlag(f) == \E k \in 1..Len(flags) : flags[k] = f
         IN  [flags |-> flags,
              score |-> Score(cfg, Len(stripped), Len(flags),
                              has_title \/ Len(breadcrumbs) > 0, ends_properly),
              char_count |-> Len(stripped),
              has_title |-> has_title,
              completeness |->
                  IF hasFlag("FRAGMENT") THEN "partial"
                  ELSE IF hasFlag("EMPTY") THEN "empty"
                  ELSE "complete"]

-----------------------------------------------------------------------------
(* Inputs of merge_small_chunks.                                           *)

Letters == <<"a", "b", "c", "d", "e", "f">>

RECURSIVE Rep(_, _)
Rep(c, n) == IF n = 0 THEN <<>> ELSE <<c>> \o Rep(c, n - 1)

\* Texts of the fragment at position i: its letters are Letters[i], so that
\* a text in the output is traced to the input it came from.
PlainTexts(i) == {Rep(Letters[i], n) : n \in 0..MaxBody} \cup {<<" ">>}
CrumbTexts(i) ==
    {<<">", Letters[i], NL>> \o Rep(Letters[i], n) : n \in 0..1}
    \cup {<<">", Letters[i], NL, NL, Letters[i]>>}

\* what the chunker left in metadata["index"]: the position (document and
\* tabular chunkers), a stale value, or no metadata at all
IndexSchemes == {"position", "stale", "nometa"}

InputFrag(i, text, scheme) ==
    Frag(i, text, scheme # "nometa",
         IF text \in CrumbTexts(i) /\ scheme # "nometa"
            THEN <<<<Letters[i]>>>> ELSE <<>>,
         CASE scheme = "position" -> i - 1
           [] scheme = "stale" -> i + MaxChunks
           [] OTHER -> NoIndex)

RECURSIVE TextLists(_)
TextLists(n) ==
    IF n = 0 THEN {<<>>}
    ELSE {Append(l, t) : l \in TextLists(n - 1),
                         t \in PlainTexts(n) \cup CrumbTexts(n)}

InputLists ==
    {[i \in 1..Len(l) |-> InputFrag(i, l[i], s)] :
        l \in UNION {TextLists(n) : n \in 0..MaxChunks}, s \in IndexSchemes}

\* the values of the variables of a component that is not called
IdleAnalyzer ==
    [min_chars |-> 0, max_chars |-> 0, ideal_length |-> 1, penalty_per_flag |-> 0]
IdleChunk == [content |-> <<>>, breadcrumbs |-> <<>>]
IdleConfig ==
    [autoFixEnabled |-> FALSE, qualityMinChars |-> 0, qualityMaxChars |-> 0,
     qualityPenaltyPerFlag |-> 0, documentChunkSize |-> 1,
     documentChunkOverlap |-> 0, documentHeaderLevels |-> 1,
     presentationMinChunk |-> 1, tabularRowsPerChunk |-> 1]
IdleEmbedder ==
    [embed_calls |-> 0, count_calls |-> 0, texts |-> <<>>, failed |-> FALSE]
NoResult == [status |-> "none", chunks |-> <<>>, embedding_time_ms |-> 0]
\* no PDFProcessor call and no request is modelled
IdleProcessor ==
    [max_workers |-> 1, preset |-> 0, installed |-> FALSE, capacity |-> 0,
     value |-> 0, waiters |-> <<>>, calls |-> <<>>]
IdleRequest == [kind |-> "none"]
IdleSvc == pdf_processor = IdleProcessor /\ request = IdleRequest

\* the normalizer is not called
IdleNorm ==
    /\ text_in = <<>>
    /\ normalized = <<>>
    /\ renormalized = <<>>
    /\ relined = <<>>

IdleRun ==
    /\ markdown = <<>>
    /\ category = "none"
    /\ config = IdleConfig
    /\ fragments = <<>>
    /\ work = <<>>
    /\ embedder = IdleEmbedder
    /\ run_result = NoResult

-----------------------------------------------------------------------------
(* A call of merge_small_chunks.                                           *)

InitMerge ==
    /\ pc = "call"
    /\ chunks \in InputLists
    /\ passed = chunks
    /\ max_chars \in 4..MaxMaxChars    \* below 4 no two texts can be joined
    /\ min_chars \in 0..max_chars
    /\ result = <<>>
    /\ analyzer = IdleAnalyzer
    /\ an_chunk = IdleChunk
    /\ quality = NoQuality
    /\ IdleRun
    /\ IdleNorm
    /\ IdleSvc

MergeSmallChunks ==
    /\ pc = "call"
    /\ pc' = "returned"
    /\ result' = merge_small_chunks(chunks, min_chars, max_chars)
    /\ chunks' = AfterCall(chunks, result')
    /\ UNCHANGED <<passed, min_chars, max_chars, analyzeVars, runVars>>
    /\ UNCHANGED <<normVars, svcVars>>

NextMerge == MergeSmallChunks

SpecMerge == InitMerge /\ [][NextMerge]_vars

-----------------------------------------------------------------------------
(* Properties of merge_small_chunks.                                       *)

\* t occurs in s as a contiguous substring
Contains(s, t) ==
    \E k \in 0..(Len(s) - Len(t)) : SubSeq(s, k + 1, k + Len(t)) = t

\* the letters (input positions) whose text occurs in s
Origins(s) == {i \in 1..Len(Letters) : \E k \in 1..Len(s) : s[k] = Letters[i]}

Undersized(i) == Len(passed) >= 2 /\ Len(passed[i].content) < min_chars

\* the text of input i that the merger works with: the content, without
\* its breadcrumb prefix when the fragment is undersized
KeptText(i) ==
    IF Undersized(i) THEN _strip_breadcrumb_prefix(passed[i].content)
    ELSE passed[i].content

\* an undersized input that is blank once its breadcrumb prefix is gone
BlankSmall(i) == Undersized(i) /\ Strip(KeptText(i)) = <<>>

Holders(t) == {j \in 1..Len(result) : Contains(result[j].content, t)}

\* C1 (Merge size ceiling): every returned fragment has at most max_chars
\* characters, unless its content is that of an input fragment that was
\* already longer than max_chars; every such input is returned with its
\* content unchanged.
C1_MergeSizeCeiling ==
    pc = "returned" =>
        /\ \A j \in 1..Len(result) :
              \/ Len(result[j].content) <= max_chars
              \/ \E i \in 1..Len(passed) :
                    /\ Len(passed[i].content) > max_chars
                    /\ result[j].content = passed[i].content
        /\ \A i \in 1..Len(passed) :
              Len(passed[i].content) > max_chars =>
                 \E j \in 1..Len(result) : result[j].content = passed[i].content

\* a merged fragment of exactly max_chars characters next to an oversized
\* input returned as it was
C1_Witness ==
    /\ pc = "returned"
    /\ \E j, k \in 1..Len(result) :
          /\ Cardinality(Origins(result[j].content)) >= 2
          /\ Len(result[j].content) = max_chars
          /\ Len(result[k].content) > max_chars

\* C2 as stated: the text of every input fragment (without the breadcrumb
\* prefix of an undersized one) is contained in exactly one returned fragment.
C2_NeverDiscards ==
    pc = "returned" =>
        \A i \in 1..Len(passed) :
            KeptText(i) # <<>> => Cardinality(Holders(KeptText(i))) = 1

\* C2 amended: an undersized fragment that is blank without its breadcrumb
\* prefix is dropped; the text of every other input fragment is contained in
\* a returned fragment, and in exactly one when it is not blank.
C2_KeepsNonBlank ==
    pc = "returned" =>
        \A i \in 1..Len(passed) :
            IF BlankSmall(i)
            THEN \A j \in 1..Len(result) : i \notin Origins(result[j].content)
            ELSE /\ Holders(KeptText(i)) # {}
                 /\ Strip(KeptText(i)) # <<>> =>
                        Cardinality(Holders(KeptText(i))) = 1

\* an undersized fragment lost its breadcrumb prefix and was merged with
\* another text, while a blank undersized fragment of the same list was dropped
C2_Witness ==
    /\ pc = "returned"
    /\ \E i, k \in 1..Len(passed) :
          /\ BlankSmall(k)
          /\ passed[k].content # <<>>
          /\ Undersized(i)
          /\ KeptText(i) # passed[i].content
          /\ \E j \in Holders(KeptText(i)) :
                Cardinality(Origins(result[j].content)) >= 2

\* the kept texts in input order
RECURSIVE KeptTexts(_)
KeptTexts(i) ==
    IF i > Len(passed) THEN <<>>
    ELSE IF BlankSmall(i) THEN KeptTexts(i + 1)
    ELSE <<KeptText(i)>> \o KeptTexts(i + 1)

Contents(res) == [j \in 1..Len(res) |-> res[j].content]

\* C3 (order preservation): the returned contents, read from the first
\* fragment to the last, are the kept input texts in input order, separated
\* by blank lines.
C3_OrderPreserved ==
    pc = "returned" =>
        Join(SEP, Contents(result)) = Join(SEP, KeptTexts(1))

\* an undersized text was appended to the previous emitted fragment, which
\* is an input dict, and a later fragment follows it
C3_Witness ==
    /\ pc = "returned"
    /\ Len(result) >= 2
    /\ \E i \in 1..Len(passed) :
          /\ result[1].ref = i
          /\ Len(result[1].content) > Len(passed[i].content)
          /\ SubSeq(result[1].content, 1, Len(passed[i].content)) = passed[i].content
          /\ Len(passed[i].content) > 0

\* C4 as stated, for merge_small_chunks: the i-th returned fragment has
\* metadata.index = i (0-based), whatever the length of the input list and
\* whatever index the chunker had assigned.
C4_MergeIndexContiguous ==
    pc = "returned" =>
        \A j \in 1..Len(result) :
            result[j].hasMeta /\ result[j].index = j - 1

\* the groupings of n items into runs of adjacent items: a grouping is the
\* set of positions after which a new group starts
Groupings(n) == SUBSET (1..(n - 1))

\* the groups of a grouping, as pairs <<first, last>>
GroupsOf(n, cuts) ==
    {<<a, b>> \in (1..n) \X (1..n) :
        /\ a <= b
        /\ (a = 1 \/ (a - 1) \in cuts)
        /\ (b = n \/ b \in cuts)
        /\ \A c \in cuts : ~(a <= c /\ c < b)}

GroupLen(texts, g) == Len(Join(SEP, SubSeq(texts, g[1], g[2])))

\* no merged group exceeds max_chars
Legal(texts, cuts) ==
    \A g \in GroupsOf(Len(texts), cuts) :
        g[1] < g[2] => GroupLen(texts, g) <= max_chars

NormalGroups(texts, cuts) ==
    Cardinality({g \in GroupsOf(Len(texts), cuts) :
                    GroupLen(texts, g) >= min_chars})

NormalCount(res) ==
    Cardinality({j \in 1..Len(res) : Len(res[j].content) >= min_chars})

\* C5 as stated: the number of returned fragments of at least min_chars is
\* the largest that any order-preserving grouping of adjacent fragments
\* reaches without a merged group longer than max_chars.
C5_MaximizesNormal ==
    pc = "returned" =>
        LET texts == KeptTexts(1) IN
        \A cuts \in Groupings(Len(texts)) :
            Legal(texts, cuts) => NormalGroups(texts, cuts) <= NormalCount(result)

-----------------------------------------------------------------------------
(* A call of QualityAnalyzer.analyze.                                      *)

AnalyzeAlphabet == {"a", ".", "#", ">", TICK, " "}

RECURSIVE Strings(_)
Strings(n) ==
    IF n = 0 THEN {<<>>}
    ELSE LET shorter == Strings(n - 1) IN
         shorter \cup {Append(t, c) : t \in {u \in shorter : Len(u) = n - 1},
                                      c \in AnalyzeAlphabet}

\* penalty_per_flag in hundredths: 0.0, the default 0.15, 1.0
Penalties == {0, 15, 100}
\* ideal_length: within reach of the contents, and the default
IdealLengths == {2, 1000}

\* the defaults of QualityAnalyzer.__init__ (penalty in hundredths)
DefaultMinChars == 50
DefaultMaxChars == 2000
DefaultIdealLength == 1000
DefaultPenalty == 15
\* penalty_per_flag = 0.25 of test_custom_penalty
CustomPenalty == 25

\* QualityAnalyzer() and QualityAnalyzer(penalty_per_flag=0.25)
DefaultAnalyzers ==
    [min_chars : {DefaultMinChars}, max_chars : {DefaultMaxChars},
     ideal_length : {DefaultIdealLength},
     penalty_per_flag : {DefaultPenalty, CustomPenalty}]

\* the chunks of test_penalty_per_flag ("Hi.") and test_custom_penalty
\* ("x" * 30), and a heading of 30 characters
TestChunks ==
    { [content |-> <<"H", "i", ".">>, breadcrumbs |-> <<>>],
      [content |-> Rep("x", 30), breadcrumbs |-> <<>>],
      [content |-> <<"#">> \o Rep("x", 28) \o <<".">>, breadcrumbs |-> <<>>] }

InitAnalyze ==
    /\ pc = "call"
    /\ analyzer \in [min_chars : 1..MaxAnalyzeLen, max_chars : 1..MaxAnalyzeLen,
                     ideal_length : IdealLengths, penalty_per_flag : Penalties]
                    \cup DefaultAnalyzers
    /\ an_chunk \in [content : Strings(MaxAnalyzeLen),
                     breadcrumbs : {<<>>, <<<<"a">>>>}]
                    \cup TestChunks
    /\ quality = NoQuality
    /\ chunks = <<>>
    /\ passed = <<>>
    /\ min_chars = 0
    /\ max_chars = 0
    /\ result = <<>>
    /\ IdleRun
    /\ IdleNorm
    /\ IdleSvc

Analyze ==
    /\ pc = "call"
    /\ pc' = "returned"
    /\ quality' = analyze(analyzer, an_chunk.content, an_chunk.breadcrumbs)
    /\ UNCHANGED <<analyzer, an_chunk, mergeVars, runVars>>
    /\ UNCHANGED <<normVars, svcVars>>

NextAnalyze == Analyze

SpecAnalyze == InitAnalyze /\ [][NextAnalyze]_vars

HasFlag(q, f) == \E k \in 1..Len(q.flags) : q.flags[k] = f

\* C10 (Quality score bounds): with ideal_length > 0 and penalty_per_flag
\* >= 0 the returned score is within [0.0, 1.0] (0..100 hundredths), and a
\* result that carries the EMPTY flag has score 0.0.
C10_ScoreBounds ==
    pc = "returned" =>
        /\ 0 <= quality.score /\ quality.score <= 100
        /\ HasFlag(quality, "EMPTY") => quality.score = 0

\* three flags at penalty 1.0: the base quality is floored at 0 and the
\* score is what the other three factors give
C10_Witness ==
    /\ pc = "returned"
    /\ Len(quality.flags) = 3
    /\ analyzer.penalty_per_flag * Len(quality.flags) > 100
    /\ quality.score > 0
    /\ ~HasFlag(quality, "EMPTY")

-----------------------------------------------------------------------------
(* More Python str helpers.                                                *)

\* index of the first occurrence of sep in s at or after i, or 0
RECURSIVE Find(_, _, _)
Find(s, sep, i) ==
    IF i + Len(sep) - 1 > Len(s) THEN 0
    ELSE IF SubSeq(s, i, i + Len(sep) - 1) = sep THEN i
    ELSE Find(s, sep, i + 1)

\* str.split(sep) for a non-empty sep
RECURSIVE SplitOn(_, _)
SplitOn(s, sep) ==
    LET k == Find(s, sep, 1) IN
    IF k = 0 THEN <<s>>
    ELSE <<SubSeq(s, 1, k - 1)>> \o SplitOn(SubSeq(s, k + Len(sep), Len(s)), sep)

\* str.count(c) for one character
CountChar(s, c) == Cardinality({k \in 1..Len(s) : s[k] = c})

\* [p.strip() for p in parts if p.strip()]
RECURSIVE StripNonBlank(_)
StripNonBlank(parts) ==
    IF parts = <<>> THEN <<>>
    ELSE IF Strip(Head(parts)) = <<>> THEN StripNonBlank(Tail(parts))
    ELSE <<Strip(Head(parts))>> \o StripNonBlank(Tail(parts))

\* "not text or not text.strip()"
IsBlank(text) == text = <<>> \/ Strip(text) = <<>>

\* what a chunker call gives: a list, or an exception
Chunked(cs) == [ok |-> TRUE, chunks |-> cs]
ChunkerRaised == [ok |-> FALSE, chunks |-> <<>>]

-----------------------------------------------------------------------------
(* TabularChunker.chunk  (the charStart/charEnd bookkeeping is left out)   *)

SheetSeparator == <<NL, NL, "-", "-", "-", NL, NL>>
Dashes == <<"-", "-", "-">>

TabularSections(text) ==
    LET bySheet == StripNonBlank(SplitOn(text, SheetSeparator))
        byDashes == IF bySheet = <<>> /\ Contains(text, Dashes)
                    THEN StripNonBlank(SplitOn(text, Dashes))
                    ELSE bySheet
    IN  IF byDashes = <<>> THEN <<Strip(text)>> ELSE byDashes

\* rows = [r.strip() for r in content_text.split("\n\n") if r.strip()]
RowsKeepBlank(content_text) ==
    LET parts == SplitOn(content_text, SEP) IN
    [k \in 1..Len(parts) |-> Strip(parts[k])]
Rows(content_text) == StripNonBlank(SplitOn(content_text, SEP))

\* batch = rows[i : i + self.rows_per_chunk]  (i is 0-based)
BatchOneMore(rows, i, rows_per_chunk) ==
    SubSeq(rows, i + 1, Min2(i + rows_per_chunk + 1, Len(rows)))
Batch(rows, i, rows_per_chunk) ==
    SubSeq(rows, i + 1, Min2(i + rows_per_chunk, Len(rows)))

\* "for i in range(0, len(rows), rows_per_chunk)": the chunks of one section
\* from row i on (0-based), appended to final_chunks
RECURSIVE RowBatches(_, _, _, _, _, _)
RowBatches(final_chunks, rows, i, rows_per_chunk, first_line, breadcrumbs) ==
    \* a range with a negative step that starts at 0 is empty
    IF i >= Len(rows) \/ rows_per_chunk < 0 THEN final_chunks
    ELSE LET batch == Batch(rows, i, rows_per_chunk)
             batch_text == Join(SEP, batch)
             chunk_display_text ==
                 IF breadcrumbs # <<>> THEN first_line \o SEP \o batch_text
                 ELSE batch_text
         IN  RowBatches(
                 Append(final_chunks,
                        Frag(Len(final_chunks) + 1, chunk_display_text, TRUE,
                             breadcrumbs, Len(final_chunks))),
                 rows, i + rows_per_chunk, rows_per_chunk, first_line, breadcrumbs)

\* the body of "for section in sections"
TabularSection(final_chunks, section, rows_per_chunk) ==
    LET lines == SplitLines(section)
        has_heading == StartsWith(lines[1], <<"#", " ">>)
        breadcrumbs == IF has_heading
                       THEN <<Strip(SubSeq(lines[1], 3, Len(lines[1])))>>
                       ELSE <<>>
        content_lines == SubSeq(lines, IF has_heading THEN 2 ELSE 1, Len(lines))
        content_text == Strip(Join(<<NL>>, content_lines))
        whole == Append(final_chunks,
                        Frag(Len(final_chunks) + 1, section, TRUE, breadcrumbs,
                             Len(final_chunks)))
    IN  IF content_text = <<>> THEN final_chunks
        ELSE IF /\ Contains(content_text, <<"|">>)
                /\ Contains(content_text, Dashes)
                /\ CountChar(content_text, "|") > 2
        THEN whole
        ELSE IF Rows(content_text) = <<>> THEN whole
        ELSE RowBatches(final_chunks, Rows(content_text), 0, rows_per_chunk,
                        lines[1], breadcrumbs)

RECURSIVE TabularLoop(_, _, _, _)
TabularLoop(final_chunks, sections, k, rows_per_chunk) ==
    IF k > Len(sections) THEN final_chunks
    ELSE TabularLoop(TabularSection(final_chunks, sections[k], rows_per_chunk),
                     sections, k + 1, rows_per_chunk)

\* lines[0].startswith("# ")
HasHeading(section) == StartsWith(SplitLines(section)[1], <<"#", " ">>)

\* content_text = "\n".join(lines[content_start_idx:]).strip()
ContentText(section) ==
    LET lines == SplitLines(section) IN
    Strip(Join(<<NL>>, SubSeq(lines, IF HasHeading(section) THEN 2 ELSE 1, Len(lines))))

\* "3. Determine Format": the section is taken for a Markdown table
IsMarkdownTable(section) ==
    /\ ContentText(section) # <<>>
    /\ Contains(ContentText(section), <<"|">>)
    /\ Contains(ContentText(section), Dashes)
    /\ CountChar(ContentText(section), "|") > 2

\* the section gets to "for i in range(0, len(rows), self.rows_per_chunk)"
BatchesRows(section) ==
    /\ ContentText(section) # <<>>
    /\ ~IsMarkdownTable(section)
    /\ Rows(ContentText(section)) # <<>>

\* range(0, len(rows), 0) raises ValueError
RangeRaises(step) == step = 0

TabularChunk(text, rows_per_chunk) ==
    IF IsBlank(text) THEN Chunked(<<>>)
    ELSE IF /\ RangeRaises(rows_per_chunk)
            /\ \E k \in 1..Len(TabularSections(text)) :
                   BatchesRows(TabularSections(text)[k])
    THEN ChunkerRaised
    ELSE Chunked(TabularLoop(<<>>, TabularSections(text), 1, rows_per_chunk))

-----------------------------------------------------------------------------
(* PresentationChunker.chunk                                               *)

\* self.marker
SlideMarker == <<>>

\* _create_chunk: the slides of a chunk joined by blank lines; the metadata
\* has neither breadcrumbs nor index, and has the location of the chunk: the
\* number of its first slide and the numbers of all its slides (title and
\* the character offsets are left out)
SlideChunk(contents, indices, ref) ==
    [ref |-> ref, content |-> Join(SEP, contents), hasMeta |-> TRUE,
     breadcrumbs |-> <<>>, index |-> NoIndex,
     slide_number |-> indices[1], slide_numbers |-> indices]

\* sum(len(s) for s in current_accumulation)
RECURSIVE TotalSize(_)
TotalSize(contents) ==
    IF contents = <<>> THEN 0 ELSE Len(Head(contents)) + TotalSize(Tail(contents))

\* "for i, slide_content in enumerate(raw_slides)" from slide i on (1-based),
\* and the leftover accumulation after the loop
RECURSIVE SlideLoop(_, _, _, _, _, _)
SlideLoop(final_chunks, current_accumulation, current_indices, raw_slides, i, min_chunk_size) ==
    IF i > Len(raw_slides)
    THEN IF current_accumulation # <<>>
         THEN Append(final_chunks,
                     SlideChunk(current_accumulation, current_indices,
                                Len(final_chunks) + 1))
         ELSE final_chunks
    ELSE LET content == Strip(raw_slides[i])
             grown == Append(current_accumulation, content)
             grown_indices == Append(current_indices, i)
         IN  IF content = <<>>
             THEN SlideLoop(final_chunks, current_accumulation, current_indices,
                            raw_slides, i + 1, min_chunk_size)
             ELSE IF TotalSize(grown) >= min_chunk_size \/ i = Len(raw_slides)
             THEN SlideLoop(Append(final_chunks,
                                   SlideChunk(grown, grown_indices,
                                              Len(final_chunks) + 1)),
                            <<>>, <<>>, raw_slides, i + 1, min_chunk_size)
             ELSE SlideLoop(final_chunks, grown, grown_indices, raw_slides, i + 1,
                            min_chunk_size)

\* raw_slides = text.split(self.marker): str.split raises
\* ValueError("empty separator") for an empty separator, so with the marker
\* of __init__ no non-blank text gets past this line
PresentationChunk(text, min_chunk_size) ==
    IF IsBlank(text) THEN Chunked(<<>>)
    ELSE IF SlideMarker = <<>> THEN ChunkerRaised
    ELSE Chunked(SlideLoop(<<>>, <<>>, <<>>, SplitOn(text, SlideMarker), 1,
                            min_chunk_size))

-----------------------------------------------------------------------------
(* DocumentChunker.chunk                                                   *)
(* MarkdownHeaderTextSplitter and RecursiveCharacterTextSplitter are the   *)
(* langchain library; they are modelled by what they return for markdown   *)
(* without code fences.                                                    *)

\* number of leading "#" of a line
RECURSIVE Hashes(_)
Hashes(line) ==
    IF line # <<>> /\ Head(line) = "#" THEN 1 + Hashes(Tail(line)) ELSE 0

\* no header at any of the six levels; a level holds <<>> or <<text>>
NoHeaders == [j \in 1..6 |-> <<>>]

\* one line of MarkdownHeaderTextSplitter.split_text
HeaderLine(st, raw, header_levels) ==
    LET line == Strip(raw)
        k == Hashes(line)
        is_header == /\ k >= 1
                     /\ k <= header_levels
                     /\ (Len(line) = k \/ line[k + 1] = " ")
        flushed == IF st.current # <<>>
                   THEN Append(st.out, [content |-> Join(<<NL>>, st.current),
                                        metadata |-> st.metadata])
                   ELSE st.out
    IN  IF is_header
        THEN LET data == Strip(SubSeq(line, k + 1, Len(line)))
                 headers == [j \in 1..6 |->
                               IF j < k THEN st.metadata[j]
                               ELSE IF j = k THEN <<data>> ELSE <<>>]
             IN  [out |-> flushed, current |-> <<>>, metadata |-> headers]
        ELSE IF line # <<>>
        THEN [st EXCEPT !.current = Append(@, line)]
        ELSE [st EXCEPT !.out = flushed, !.current = <<>>]

RECURSIVE HeaderLines(_, _, _, _)
HeaderLines(st, lines, k, header_levels) ==
    IF k > Len(lines)
    THEN IF st.current # <<>>
         THEN Append(st.out, [content |-> Join(<<NL>>, st.current),
                              metadata |-> st.metadata])
         ELSE st.out
    ELSE HeaderLines(HeaderLine(st, lines[k], header_levels), lines, k + 1,
                     header_levels)

\* aggregate_lines_to_chunks: neighbours with the same headers are joined
RECURSIVE Aggregate(_, _)
Aggregate(acc, rest) ==
    IF rest = <<>> THEN acc
    ELSE IF acc # <<>> /\ acc[Len(acc)].metadata = Head(rest).metadata
    THEN Aggregate([acc EXCEPT ![Len(acc)].content =
                        @ \o <<" ", " ", NL>> \o Head(rest).content],
                   Tail(rest))
    ELSE Aggregate(Append(acc, Head(rest)), Tail(rest))

\* header_splitter.split_text(text)
HeaderSplit(text, header_levels) ==
    Aggregate(<<>>,
              HeaderLines([out |-> <<>>, current |-> <<>>, metadata |-> NoHeaders],
                          SplitLines(text), 1, header_levels))

\* recursive_splitter.split_text(text): pieces of at most chunk_size
\* characters, stripped, none blank (where the library cuts is not modelled:
\* the pieces are cut at every chunk_size characters)
RECURSIVE RecursiveSplit(_, _)
RecursiveSplit(text, chunk_size) ==
    IF Len(text) <= chunk_size THEN StripNonBlank(<<text>>)
    ELSE StripNonBlank(<<SubSeq(text, 1, chunk_size)>>)
         \o RecursiveSplit(SubSeq(text, chunk_size + 1, Len(text)), chunk_size)

\* breadcrumbs: the headers of levels 1..header_levels that are set
RECURSIVE Breadcrumbs(_, _, _)
Breadcrumbs(metadata, i, header_levels) ==
    IF i > header_levels THEN <<>>
    ELSE metadata[i] \o Breadcrumbs(metadata, i + 1, header_levels)

\* "> " + " > ".join(breadcrumbs) + "\n\n"
ContextPrefix(breadcrumbs) ==
    IF breadcrumbs = <<>> THEN <<>>
    ELSE <<">", " ">> \o Join(<<" ", ">", " ">>, breadcrumbs) \o SEP

RECURSIVE AppendSubChunks(_, _, _, _)
AppendSubChunks(final_chunks, sub_chunks, context_prefix, breadcrumbs) ==
    IF sub_chunks = <<>> THEN final_chunks
    ELSE AppendSubChunks(
            Append(final_chunks,
                   Frag(Len(final_chunks) + 1, context_prefix \o Head(sub_chunks),
                        TRUE, breadcrumbs, Len(final_chunks))),
            Tail(sub_chunks), context_prefix, breadcrumbs)

\* the body of "for split in header_splits"
DocumentSplit(final_chunks, split, chunk_size, header_levels) ==
    LET breadcrumbs == Breadcrumbs(split.metadata, 1, header_levels)
        context_prefix == ContextPrefix(breadcrumbs)
        chunk_content == context_prefix \o split.content
    IN  IF Len(chunk_content) > chunk_size
        THEN AppendSubChunks(final_chunks, RecursiveSplit(split.content, chunk_size),
                             context_prefix, breadcrumbs)
        ELSE Append(final_chunks,
                    Frag(Len(final_chunks) + 1, chunk_content, TRUE, breadcrumbs,
                         Len(final_chunks)))

RECURSIVE DocumentLoop(_, _, _, _, _)
DocumentLoop(final_chunks, splits, k, chunk_size, header_levels) ==
    IF k > Len(splits) THEN final_chunks
    ELSE DocumentLoop(DocumentSplit(final_chunks, splits[k], chunk_size, header_levels),
                      splits, k + 1, chunk_size, header_levels)

\* self.header_levels = min(max(header_levels, 1), 6)
ClampLevels(header_levels) == Min2(Max2(header_levels, 1), 6)

DocumentChunk(text, chunk_size, header_levels) ==
    IF IsBlank(text) THEN Chunked(<<>>)
    ELSE Chunked(DocumentLoop(<<>>, HeaderSplit(text, ClampLevels(header_levels)), 1,
                              chunk_size, ClampLevels(header_levels)))

-----------------------------------------------------------------------------
(* HybridEmbedder: the dense and sparse models are outside the repository; *)
(* the vector of a text is an uninterpreted value that names the text.     *)

HybridVector(text) ==
    [dense |-> <<"dense", text>>,
     sparse |-> [indices |-> <<"indices", text>>, values |-> <<"values", text>>]]

NoVector ==
    [dense |-> <<>>, sparse |-> [indices |-> <<>>, values |-> <<>>]]

\* HybridEmbedder.embed, when the models do not raise: one vector per text,
\* in the order of the texts
embed(texts) == [i \in 1..Len(texts) |-> HybridVector(texts[i])]

\* len(text.split()): the number of runs of non-whitespace characters
WordCount(text) ==
    Cardinality({k \in 1..Len(text) :
                    /\ ~IsSpace(text[k])
                    /\ (k = 1 \/ IsSpace(text[k - 1]))})

\* HybridEmbedder.get_token_counts: min(int(word_count * 1.3), 512)
get_token_counts(texts) ==
    [i \in 1..Len(texts) |-> Min2((13 * WordCount(texts[i])) \div 10, 512)]

-----------------------------------------------------------------------------
(* ProcessingPipeline.run                                                  *)

\* the value of a key of a chunk dict that is not set yet
NoTokenCount == -1

\* a chunk dict of run(): the fragment, and the keys run() adds to it
WorkChunk(frag) ==
    [ref |-> frag.ref, content |-> frag.content, hasMeta |-> frag.hasMeta,
     breadcrumbs |-> frag.breadcrumbs, metaIndex |-> frag.index,
     analyzed |-> FALSE, qualityScore |-> 0, qualityFlags |-> <<>>,
     hasTitle |-> FALSE, completeness |-> "none", chunkType |-> "none",
     index |-> NoIndex,
     hasVector |-> FALSE, vector |-> NoVector, tokenCount |-> NoTokenCount]

WorkChunks(frags) == [i \in 1..Len(frags) |-> WorkChunk(frags[i])]

\* the chunker selected by category
SelectChunker(cat, text, cfg) ==
    IF cat = "presentation" THEN PresentationChunk(text, cfg.presentationMinChunk)
    ELSE IF cat = "tabular" THEN TabularChunk(text, cfg.tabularRowsPerChunk)
    ELSE DocumentChunk(text, cfg.documentChunkSize, cfg.documentHeaderLevels)

\* "if not chunks: return [], 0"
NoFragmentsIgnored(cs) == FALSE
NoFragments(cs) == cs = <<>>

\* self.analyzer, as __init__ builds it from the config
PipelineAnalyzer(cfg) ==
    [min_chars |-> cfg.qualityMinChars, max_chars |-> cfg.qualityMaxChars,
     ideal_length |-> cfg.documentChunkSize,
     penalty_per_flag |-> cfg.qualityPenaltyPerFlag]

\* "3. Analyze quality for each chunk"
AnalyzeAllBare(cs, cfg, cat) ==
    [i \in 1..Len(cs) |->
        LET q == analyze(PipelineAnalyzer(cfg),
                         _strip_breadcrumb_prefix(cs[i].content), cs[i].breadcrumbs) IN
        [cs[i] EXCEPT !.analyzed = TRUE, !.qualityScore = q.score,
                      !.qualityFlags = q.flags, !.hasTitle = q.has_title,
                      !.completeness = q.completeness, !.chunkType = cat,
                      !.index = i - 1]]
AnalyzeAll(cs, cfg, cat) ==
    [i \in 1..Len(cs) |->
        LET q == analyze(PipelineAnalyzer(cfg), cs[i].content, cs[i].breadcrumbs) IN
        [cs[i] EXCEPT !.analyzed = TRUE, !.qualityScore = q.score,
                      !.qualityFlags = q.flags, !.hasTitle = q.has_title,
                      !.completeness = q.completeness, !.chunkType = cat,
                      !.index = i - 1]]

TextsOf(cs) == [i \in 1..Len(cs) |-> cs[i].content]

\* the loop that attaches hybrid_vectors[i] and token_counts[i] to chunk i
AttachReversed(cs, hybrid_vectors, token_counts) ==
    [i \in 1..Len(cs) |->
        [cs[i] EXCEPT !.hasVector = TRUE,
                      !.vector = hybrid_vectors[Len(cs) + 1 - i],
                      !.tokenCount = token_counts[Len(cs) + 1 - i]]]
AttachVectors(cs, hybrid_vectors, token_counts) ==
    [i \in 1..Len(cs) |->
        [cs[i] EXCEPT !.hasVector = TRUE, !.vector = hybrid_vectors[i],
                      !.tokenCount = token_counts[i]]]

Returned(cs, ms) == [status |-> "returned", chunks |-> cs, embedding_time_ms |-> ms]
Raised == [status |-> "raised", chunks |-> <<>>, embedding_time_ms |-> 0]

\* an exception of self.embedder.embed(texts) is not caught in run()
EmbedErrorSwallowed(cs) == Returned(cs, 0)
OnEmbedError(cs) == Raised

-----------------------------------------------------------------------------
(* Inputs of run().                                                        *)

\* blocks of a document: a section with a heading, a subsection, two
\* paragraphs, a blank line, a heading without text under it, a quoted line
DocBlocks ==
    { <<"#", " ", "A", NL, "x", ".">>,
      <<"#", "#", " ", "B", NL, "y">>,
      <<"x", ".">>,
      <<"y", "y", " ", "z", "z">>,
      <<>>,
      <<"#", " ", "C">>,
      <<">", " ", "q">> }

\* sheets of a workbook: a heading alone, a heading and a row, two rows, a
\* table, a blank sheet, two rows with a blank paragraph between them
TabSections ==
    { <<"#", " ", "S">>,
      <<"#", " ", "S", NL, "r", ".">>,
      <<"r", NL, NL, "q">>,
      <<"|", "a", "|", "b", "|", NL, "|", "-", "-", "-", "|">>,
      <<" ">>,
      <<"r", NL, NL, NL, NL, "q">> }

\* slides of a presentation
Slides == { <<"S", "1">>, <<" ">>, <<"#", " ", "T", NL, "x">> }

\* the marker the PPTX converter writes between slides
ConverterSlideMarker ==
    <<"<", "!", "-", "-", " ", "s", "l", "i", "d", "e", " ", "-", "-", ">">>

RECURSIVE SeqsOver(_, _)
SeqsOver(S, n) ==
    IF n = 0 THEN {<<>>}
    ELSE LET shorter == SeqsOver(S, n - 1) IN
         shorter \cup {Append(l, x) : l \in {u \in shorter : Len(u) = n - 1}, x \in S}

Markdowns(cat) ==
    IF cat = "document"
    THEN {Join(<<NL>>, l) : l \in SeqsOver(DocBlocks, MaxSections)}
    ELSE IF cat = "tabular"
    THEN {Join(SheetSeparator, l) : l \in SeqsOver(TabSections, MaxSections)}
    ELSE {Join(ConverterSlideMarker, l) : l \in SeqsOver(Slides, MaxSections)}

\* qualityMinChars and qualityMaxChars; the recursive splitter is built
\* with chunk_overlap = documentChunkOverlap, which it requires to be at most
\* chunk_size
RunThresholds == {<<3, 8>>, <<8, 20>>}

Configs(cat) ==
    {[autoFixEnabled |-> fix, qualityMinChars |-> t[1], qualityMaxChars |-> t[2],
      qualityPenaltyPerFlag |-> 15, documentChunkSize |-> size,
      documentChunkOverlap |-> 0, documentHeaderLevels |-> levels,
      presentationMinChunk |-> slide_size, tabularRowsPerChunk |-> rows] :
        fix \in BOOLEAN, t \in RunThresholds, size \in {3, 1000},
        levels \in (IF cat = "document" THEN {1, 3} ELSE {3}),
        slide_size \in (IF cat = "presentation" THEN {3, 200} ELSE {200}),
        rows \in (IF cat = "tabular" THEN {1, 2} ELSE {20})}

InitRun ==
    /\ pc = "call"
    /\ category \in {"document", "presentation", "tabular"}
    /\ markdown \in Markdowns(category)
    /\ config \in Configs(category)
    /\ fragments = <<>>
    /\ work = <<>>
    /\ embedder = IdleEmbedder
    /\ run_result = NoResult
    /\ chunks = <<>>
    /\ passed = <<>>
    /\ min_chars = 0
    /\ max_chars = 0
    /\ result = <<>>
    /\ analyzer = IdleAnalyzer
    /\ an_chunk = IdleChunk
    /\ quality = NoQuality
    /\ IdleNorm
    /\ IdleSvc

\* lines 251-266: the early return, the chunker, the return without chunks
RunChunk ==
    /\ pc = "call"
    /\ IF IsBlank(markdown)
       THEN /\ pc' = "returned"
            /\ run_result' = Returned(<<>>, 0)
            /\ UNCHANGED <<fragments, work>>
       ELSE LET out == SelectChunker(category, markdown, config) IN
            IF ~out.ok
            THEN /\ pc' = "raised"
                 /\ run_result' = Raised
                 /\ UNCHANGED <<fragments, work>>
            ELSE /\ fragments' = out.chunks
                 /\ work' = WorkChunks(out.chunks)
                 /\ IF NoFragments(out.chunks)
                    THEN pc' = "returned" /\ run_result' = Returned(<<>>, 0)
                    ELSE pc' = "chunked" /\ UNCHANGED run_result
    /\ UNCHANGED <<markdown, category, config, embedder, mergeVars, analyzeVars>>
    /\ UNCHANGED <<normVars, svcVars>>

\* lines 268-283: the merge pass when autoFixEnabled
RunMerge ==
    /\ pc = "chunked"
    /\ pc' = "merged"
    /\ IF config.autoFixEnabled
       THEN /\ passed' = fragments
            /\ min_chars' = config.qualityMinChars
            /\ max_chars' = config.qualityMaxChars
            /\ result' = merge_small_chunks(fragments, config.qualityMinChars,
                                            config.qualityMaxChars)
            /\ chunks' = AfterCall(fragments, result')
            /\ work' = WorkChunks(result')
       ELSE UNCHANGED <<mergeVars, work>>
    /\ UNCHANGED <<markdown, category, config, fragments, embedder, run_result,
                   analyzeVars>>
    /\ UNCHANGED <<normVars, svcVars>>

\* lines 285-293
RunAnalyze ==
    /\ pc = "merged"
    /\ pc' = "analyzed"
    /\ work' = AnalyzeAll(work, config, category)
    /\ UNCHANGED <<markdown, category, config, fragments, embedder, run_result,
                   mergeVars, analyzeVars>>
    /\ UNCHANGED <<normVars, svcVars>>

\* lines 295-320: embed, get_token_counts, attach, return
RunEmbed ==
    /\ pc = "analyzed"
    /\ LET texts == TextsOf(work)
           hybrid_vectors == embed(texts)
           token_counts == get_token_counts(texts)
       IN  /\ embedder' = [embed_calls |-> embedder.embed_calls + 1,
                           count_calls |-> embedder.count_calls + 1,
                           texts |-> texts, failed |-> FALSE]
           /\ work' = AttachVectors(work, hybrid_vectors, token_counts)
           /\ \E embedding_time_ms \in 0..1 :
                 run_result' = Returned(work', embedding_time_ms)
    /\ pc' = "returned"
    /\ UNCHANGED <<markdown, category, config, fragments, mergeVars, analyzeVars>>
    /\ UNCHANGED <<normVars, svcVars>>

\* line 298 when the dense or the sparse model raises (hybrid_embedder.py
\* 103-105 logs and re-raises)
RunEmbedFails ==
    /\ pc = "analyzed"
    /\ embedder' = [embed_calls |-> embedder.embed_calls + 1,
                    count_calls |-> embedder.count_calls,
                    texts |-> TextsOf(work), failed |-> TRUE]
    /\ run_result' = OnEmbedError(work)
    /\ pc' = IF run_result'.status = "raised" THEN "raised" ELSE "returned"
    /\ UNCHANGED <<markdown, category, config, fragments, work, mergeVars,
                   analyzeVars>>
    /\ UNCHANGED <<normVars, svcVars>>

NextRun == RunChunk \/ RunMerge \/ RunAnalyze \/ RunEmbed \/ RunEmbedFails

SpecRun == InitRun /\ [][NextRun]_vars

-----------------------------------------------------------------------------
(* Properties of run().                                                    *)

RunReturned == pc = "returned" /\ run_result.status = "returned"

\* the texts the chunker produced, as the merge pass keeps them
ProducedTexts ==
    IF config.autoFixEnabled THEN KeptTexts(1) ELSE TextsOf(fragments)

\* C6 (order end to end): the returned chunks carry the chunker's texts in
\* the chunker's order (the kept texts, joined by blank lines, after a merge
\* pass), and chunk i carries the vector and the token count the embedder
\* returned at position i, which are those of the text of chunk i.
C6_RunOrder ==
    RunReturned =>
        LET out == run_result.chunks IN
        /\ IF config.autoFixEnabled
           THEN Join(SEP, TextsOf(out)) = Join(SEP, ProducedTexts)
           ELSE TextsOf(out) = ProducedTexts
        /\ out # <<>> => embedder.texts = TextsOf(out)
        /\ \A i \in 1..Len(out) :
              /\ out[i].index = i - 1
              /\ out[i].vector = embed(embedder.texts)[i]
              /\ out[i].vector = HybridVector(out[i].content)
              /\ out[i].tokenCount = get_token_counts(embedder.texts)[i]
              /\ out[i].tokenCount = get_token_counts(<<out[i].content>>)[1]

\* run() returned two chunks with different texts and different token
\* counts, after a merge pass that joined fragments
C6_Witness ==
    /\ RunReturned
    /\ config.autoFixEnabled
    /\ Len(result) < Len(passed)
    /\ Len(run_result.chunks) >= 2
    /\ run_result.chunks[1].content # run_result.chunks[2].content
    /\ run_result.chunks[1].tokenCount # run_result.chunks[2].tokenCount

\* C7 (embedder failure): when the embedder fails, run() raises and returns
\* no chunk list; when run() returns, every chunk has a vector with a dense
\* and a sparse part and a tokenCount.
C7_EmbedFailurePropagates ==
    /\ embedder.failed =>
          /\ pc = "raised"
          /\ run_result.status = "raised"
          /\ run_result.chunks = <<>>
    /\ RunReturned =>
          \A i \in 1..Len(run_result.chunks) :
              LET c == run_result.chunks[i] IN
              /\ c.hasVector
              /\ c.vector.dense # <<>>
              /\ c.vector.sparse.indices # <<>>
              /\ c.vector.sparse.values # <<>>
              /\ c.tokenCount # NoTokenCount

\* the embedder failed on two analyzed chunks
C7_Witness ==
    /\ embedder.failed
    /\ embedder.embed_calls = 1
    /\ Len(work) >= 2
    /\ \A i \in 1..Len(work) : work[i].analyzed /\ ~work[i].hasVector

\* the selected chunker returned an empty list
YieldsNoFragment == SelectChunker(category, markdown, config) = Chunked(<<>>)

\* C8 (empty input): for blank markdown, and for markdown the selected
\* chunker makes no fragment of, run() returns ([], 0) and calls neither
\* embed nor get_token_counts.
C8_EmptyInputSkipsEmbedder ==
    (pc # "call" /\ (IsBlank(markdown) \/ YieldsNoFragment)) =>
        /\ pc = "returned"
        /\ run_result = Returned(<<>>, 0)
        /\ embedder.embed_calls = 0
        /\ embedder.count_calls = 0

\* run() returned for markdown that is not blank and gave no fragment
C8_Witness ==
    /\ pc = "returned"
    /\ ~IsBlank(markdown)
    /\ YieldsNoFragment
    /\ run_result = Returned(<<>>, 0)

\* C9 (no empty chunk): no returned chunk has blank content or the EMPTY
\* flag, whatever the category and with or without the merge pass.
C9_NoEmptyChunk ==
    RunReturned =>
        \A i \in 1..Len(run_result.chunks) :
            LET c == run_result.chunks[i] IN
            /\ ~IsBlank(c.content)
            /\ c.analyzed
            /\ \A k \in 1..Len(c.qualityFlags) : c.qualityFlags[k] # "EMPTY"

\* run() returned chunks without the merge pass for a sheet that has a blank
\* paragraph between two rows
C9_Witness ==
    /\ RunReturned
    /\ ~config.autoFixEnabled
    /\ category = "tabular"
    /\ Contains(markdown, <<NL, NL, NL, NL>>)
    /\ config.tabularRowsPerChunk = 1
    /\ Len(run_result.chunks) >= 2

-----------------------------------------------------------------------------
(* More properties of analyze.                                             *)

FlagSet(q) == {q.flags[k] : k \in 1..Len(q.flags)}

\* C11 (flag rules): on blank content the flags are EMPTY alone; otherwise
\* TOO_SHORT iff charCount < min_chars, TOO_LONG iff charCount > max_chars,
\* NO_CONTEXT iff the stripped content starts with neither "#" nor ">" and
\* there are no breadcrumbs, FRAGMENT iff the last character is none of
\* . ! ? : > and the text does not end with a code fence; there is no other
\* flag and none twice; completeness is "empty" iff EMPTY, "partial" iff
\* FRAGMENT, otherwise "complete".
C11_FlagRules ==
    pc = "returned" =>
        LET stripped == Strip(an_chunk.content)
            charCount == Len(stripped)
            last == stripped[charCount]
            F == FlagSet(quality)
        IN  /\ Len(quality.flags) = Cardinality(F)
            /\ F \subseteq {"EMPTY", "TOO_SHORT", "TOO_LONG", "NO_CONTEXT", "FRAGMENT"}
            /\ quality.completeness = (IF "EMPTY" \in F THEN "empty"
                                       ELSE IF "FRAGMENT" \in F THEN "partial"
                                       ELSE "complete")
            /\ IF charCount = 0
               THEN F = {"EMPTY"}
               ELSE /\ "EMPTY" \notin F
                    /\ "TOO_SHORT" \in F <=> charCount < analyzer.min_chars
                    /\ "TOO_LONG" \in F <=> charCount > analyzer.max_chars
                    /\ "NO_CONTEXT" \in F <=>
                          /\ stripped[1] \notin {"#", ">"}
                          /\ an_chunk.breadcrumbs = <<>>
                    /\ "FRAGMENT" \in F <=>
                          /\ last \notin {".", "!", "?", ":", ">"}
                          /\ ~(/\ charCount >= 3
                               /\ last = TICK
                               /\ stripped[charCount - 1] = TICK
                               /\ stripped[charCount - 2] = TICK)

\* a padded text of exactly min_chars = max_chars characters that ends a
\* sentence: neither TOO_SHORT nor TOO_LONG nor FRAGMENT, NO_CONTEXT alone
C11_Witness ==
    /\ pc = "returned"
    /\ an_chunk.content # Strip(an_chunk.content)
    /\ Len(Strip(an_chunk.content)) = analyzer.min_chars
    /\ analyzer.min_chars = analyzer.max_chars
    /\ quality.flags = <<"NO_CONTEXT">>
    /\ quality.completeness = "complete"

\* the four weighted factors of the claim, times 1000 * ideal_length
BlendTimesIdeal ==
    LET charCount == Len(Strip(an_chunk.content))
        flagCount == Len(quality.flags)
        base == Max2(0, 100 - analyzer.penalty_per_flag * flagCount)
        length == Min2(analyzer.ideal_length, charCount)
        context == IF quality.has_title \/ an_chunk.breadcrumbs # <<>>
                   THEN 100 ELSE 50
        ending == IF "FRAGMENT" \in FlagSet(quality) THEN 70 ELSE 100
    IN  40 * base * analyzer.ideal_length + 3000 * length
        + 20 * context * analyzer.ideal_length + 10 * ending * analyzer.ideal_length

\* C12 (score): for a non-empty fragment the score is the weighted blend
\* 0.40*base + 0.30*length + 0.20*context + 0.10*completeness rounded to two
\* decimals (the hundredth nearest to the blend); with the default thresholds
\* "Hi." without breadcrumbs gets TOO_SHORT and NO_CONTEXT and the score 0.48.
C12_WeightedScore ==
    pc = "returned" =>
        /\ "EMPTY" \notin FlagSet(quality) =>
              LET unit == 100 * analyzer.ideal_length
                  diff == quality.score * unit - BlendTimesIdeal
              IN  -unit <= 2 * diff /\ 2 * diff <= unit
        /\ (/\ analyzer = [min_chars |-> DefaultMinChars, max_chars |-> DefaultMaxChars,
                           ideal_length |-> DefaultIdealLength,
                           penalty_per_flag |-> DefaultPenalty]
            /\ an_chunk = [content |-> <<"H", "i", ".">>, breadcrumbs |-> <<>>])
           => /\ FlagSet(quality) = {"TOO_SHORT", "NO_CONTEXT"}
              /\ quality.score = 48

\* "Hi." analyzed with the default thresholds
C12_Witness ==
    /\ pc = "returned"
    /\ analyzer.min_chars = DefaultMinChars
    /\ analyzer.penalty_per_flag = DefaultPenalty
    /\ an_chunk.content = <<"H", "i", ".">>
    /\ quality.score = 48

\* C13 (custom penalty): with penalty_per_flag = 0.25 and the other defaults,
\* "x" * 30 without breadcrumbs gets TOO_SHORT, NO_CONTEXT and FRAGMENT and a
\* score within 0.01 of 0.25.
C13_CustomPenaltyScore ==
    (/\ pc = "returned"
     /\ analyzer = [min_chars |-> DefaultMinChars, max_chars |-> DefaultMaxChars,
                    ideal_length |-> DefaultIdealLength,
                    penalty_per_flag |-> CustomPenalty]
     /\ an_chunk = [content |-> Rep("x", 30), breadcrumbs |-> <<>>])
    => /\ FlagSet(quality) = {"TOO_SHORT", "NO_CONTEXT", "FRAGMENT"}
       /\ 24 <= quality.score /\ quality.score <= 26

-----------------------------------------------------------------------------
(* MarkdownNormalizer.normalize                                            *)
(* The text "__M_NORM_BLOCK_<i>__" is one symbol of the model, whether the *)
(* normalizer wrote it or the input held it: no pass looks inside it.      *)

CR == "\r"
FENCE == <<TICK, TICK, TICK>>

\* f"__M_NORM_BLOCK_{i}__"
PlaceholderTokens ==
    <<"__M_NORM_BLOCK_0__", "__M_NORM_BLOCK_1__", "__M_NORM_BLOCK_2__",
      "__M_NORM_BLOCK_3__", "__M_NORM_BLOCK_4__", "__M_NORM_BLOCK_5__">>
Placeholder(i) == PlaceholderTokens[i + 1]

\* markdown.replace("\r\n", "\n").replace("\r", "\n")
RECURSIVE StandardizeLineEndings(_)
StandardizeLineEndings(text) ==
    IF text = <<>> THEN <<>>
    ELSE IF Head(text) = CR
    THEN IF Len(text) >= 2 /\ text[2] = NL
         THEN StandardizeLineEndings(Tail(text))
         ELSE <<NL>> \o StandardizeLineEndings(Tail(text))
    ELSE <<Head(text)>> \o StandardizeLineEndings(Tail(text))

\* _CODE_BLOCK_PATTERN at position p: the fence, the rest of its line with
\* the newline, then the shortest text up to the next fence; the position of
\* that closing fence, or 0 when there is no match at p
CodeBlockClose(text, p) ==
    IF p + 2 > Len(text) \/ SubSeq(text, p, p + 2) # FENCE THEN 0
    ELSE LET nl == FirstNL(text, p + 3) IN
         IF nl = 0 THEN 0 ELSE Find(text, FENCE, nl + 1)

\* the leftmost position at or after p where the pattern matches, or 0
RECURSIVE CodeBlockStart(_, _)
CodeBlockStart(text, p) ==
    IF p + 2 > Len(text) THEN 0
    ELSE IF CodeBlockClose(text, p) # 0 THEN p
    ELSE CodeBlockStart(text, p + 1)

\* _extract_code_blocks: every match moves to storage and leaves the
\* placeholder of its storage index
RECURSIVE _extract_code_blocks(_, _)
_extract_code_blocks(text, storage) ==
    LET p == CodeBlockStart(text, 1) IN
    IF p = 0 THEN [text |-> text, storage |-> storage]
    ELSE LET close == CodeBlockClose(text, p)
             rest == _extract_code_blocks(SubSeq(text, close + 3, Len(text)),
                                          Append(storage, SubSeq(text, p, close + 2)))
         IN  [text |-> SubSeq(text, 1, p - 1) \o <<Placeholder(Len(storage))>>
                       \o rest.text,
              storage |-> rest.storage]

\* "^\s*" with re.MULTILINE ends right before q: some line start p <= q has
\* only whitespace between p and q
AfterLineStart(text, q) ==
    \E p \in 1..q :
        /\ (p = 1 \/ text[p - 1] = NL)
        /\ \A k \in p..(q - 1) : IsSpace(text[k])

\* the matches of fence_pattern = "^\s*```"
FenceMatches(text) ==
    {q \in 1..(Len(text) - 2) :
        SubSeq(text, q, q + 2) = FENCE /\ AfterLineStart(text, q)}

\* _fix_unclosed_code_blocks
_fix_unclosed_code_blocks(text) ==
    IF Cardinality(FenceMatches(text)) % 2 = 1
    THEN (IF text[Len(text)] = NL THEN text ELSE Append(text, NL)) \o FENCE
    ELSE text

\* _BULLET_PATTERN.sub(r"\1-\3"): "*" or "+" after "^\s*" and before a
\* whitespace character becomes "-"
StandardizeBulletsAnywhere(text) ==
    [q \in 1..Len(text) |->
        IF /\ text[q] \in {"*", "+"}
           /\ q < Len(text)
           /\ IsSpace(text[q + 1])
        THEN "-" ELSE text[q]]
StandardizeBullets(text) ==
    [q \in 1..Len(text) |->
        IF /\ text[q] \in {"*", "+"}
           /\ AfterLineStart(text, q)
           /\ q < Len(text)
           /\ IsSpace(text[q + 1])
        THEN "-" ELSE text[q]]

\* _MULTIPLE_BLANK_LINES.sub("\n\n"): three or more newlines become two
RECURSIVE CollapseBlankLines(_)
CollapseBlankLines(text) ==
    IF text = <<>> THEN <<>>
    ELSE IF Len(text) >= 3 /\ SubSeq(text, 1, 3) = <<NL, NL, NL>>
    THEN CollapseBlankLines(Tail(text))
    ELSE <<Head(text)>> \o CollapseBlankLines(Tail(text))

\* the first position at or after i that holds no newline (Len + 1 if none)
RECURSIVE SkipNewlines(_, _)
SkipNewlines(text, i) ==
    IF i <= Len(text) /\ text[i] = NL THEN SkipNewlines(text, i + 1) ELSE i

\* _EMPTY_SECTION_PATTERN at line start p: a heading of 1..6 "#", blanks,
\* a text, newlines, and right after them a heading of the same level; the
\* position of that next heading, or 0 when there is no match at p
EmptySectionEnd(text, p) ==
    LET k == Hashes(SubSeq(text, p, Len(text)))
        nl == FirstNL(text, p)
        next == SkipNewlines(text, nl)
    IN  IF /\ (p = 1 \/ text[p - 1] = NL)
           /\ k >= 1 /\ k <= 6
           /\ nl # 0
           /\ nl >= p + k + 2
           /\ text[p + k] = " "
           /\ next + k <= Len(text)
           /\ Hashes(SubSeq(text, next, Len(text))) = k
           /\ IsSpace(text[next + k])
        THEN next ELSE 0

\* one _EMPTY_SECTION_PATTERN.sub("", text), from position p on
RECURSIVE RemoveEmptySectionsOnce(_, _)
RemoveEmptySectionsOnce(text, p) ==
    IF p > Len(text) THEN <<>>
    ELSE IF EmptySectionEnd(text, p) # 0
    THEN RemoveEmptySectionsOnce(text, EmptySectionEnd(text, p))
    ELSE <<text[p]>> \o RemoveEmptySectionsOnce(text, p + 1)

\* the loop of _remove_empty_sections after count passes
RECURSIVE RemoveEmptySectionsLoop(_, _, _)
RemoveEmptySectionsLoop(text, count, max_iterations) ==
    IF count >= max_iterations THEN text
    ELSE LET once == RemoveEmptySectionsOnce(text, 1) IN
         IF once = text THEN text
         ELSE RemoveEmptySectionsLoop(once, count + 1, max_iterations)

_remove_empty_sections(text) == RemoveEmptySectionsLoop(text, 0, 10)

\* text.replace(token, block)
RECURSIVE ReplaceToken(_, _, _)
ReplaceToken(text, token, block) ==
    IF text = <<>> THEN <<>>
    ELSE (IF Head(text) = token THEN block ELSE <<Head(text)>>)
         \o ReplaceToken(Tail(text), token, block)

\* _restore_code_blocks: one replace per stored block, in storage order
RECURSIVE RestoreFrom(_, _, _)
RestoreFrom(text, storage, i) ==
    IF i > Len(storage) THEN text
    ELSE RestoreFrom(ReplaceToken(text, Placeholder(i - 1), storage[i]), storage, i + 1)

_restore_code_blocks(text, storage) == RestoreFrom(text, storage, 1)

normalize(md) ==
    IF md = <<>> THEN <<>>
    ELSE LET step0 == StandardizeLineEndings(md)
             step1 == _extract_code_blocks(step0, <<>>)
             step2 == _fix_unclosed_code_blocks(step1.text)
             again == IF Contains(step2, FENCE)
                      THEN _extract_code_blocks(step2, step1.storage)
                      ELSE [text |-> step2, storage |-> step1.storage]
             step3 == StandardizeBullets(again.text)
             step4 == CollapseBlankLines(step3)
             step5 == _remove_empty_sections(step4)
             step6 == Append(Strip(step5), NL)
         IN  _restore_code_blocks(step6, again.storage)

-----------------------------------------------------------------------------
(* MarkdownNormalizer.merge_soft_linebreaks                                *)

\* [a-z]
Lowercase ==
    {"a", "b", "c", "d", "e", "f", "g", "h", "i", "j", "k", "l", "m",
     "n", "o", "p", "q", "r", "s", "t", "u", "v", "w", "x", "y", "z"}
\* \d
Digits == {"0", "1", "2", "3", "4", "5", "6", "7", "8", "9"}

\* number of leading digits of a line
RECURSIVE LeadingDigits(_)
LeadingDigits(line) ==
    IF line # <<>> /\ Head(line) \in Digits THEN 1 + LeadingDigits(Tail(line)) ELSE 0

\* skip_patterns.match(line): a heading, a list item, a numbered item, a
\* blockquote or a table row, after any leading whitespace
SkipPattern(line) ==
    LET t == LStrip(line)
        h == Hashes(t)
        d == LeadingDigits(t)
    IN  \/ h >= 1 /\ h <= 6 /\ Len(t) > h /\ IsSpace(t[h + 1])
        \/ Len(t) >= 2 /\ t[1] \in {"-", "*", "+"} /\ IsSpace(t[2])
        \/ d >= 1 /\ Len(t) >= d + 2 /\ t[d + 1] = "." /\ IsSpace(t[d + 2])
        \/ t # <<>> /\ t[1] = ">"
        \/ t # <<>> /\ t[1] = "|"

\* re.match(r"[a-z]", text)
StartsLowercase(text) == text # <<>> /\ Head(text) \in Lowercase
\* re.search(r"[\]\)]$", text)
EndsWithBracket(text) == text # <<>> /\ text[Len(text)] \in {"]", ")"}
\* re.search(r"[.!?:]$", text)
EndsSentence(text) == text # <<>> /\ text[Len(text)] \in {".", "!", "?", ":"}

\* the condition of the merge across one empty line (lines 224-230)
FakeParagraphBreak(lines, i) ==
    /\ i + 2 <= Len(lines)
    /\ RStrip(lines[i]) # <<>>
    /\ ~EndsSentence(RStrip(lines[i]))
    /\ StartsLowercase(LStrip(lines[i + 2]))
    /\ ~EndsWithBracket(RStrip(lines[i]))

\* the condition of the merge with the next line (lines 242-258)
SoftBreakAnyCase(lines, i) ==
    /\ ~SkipPattern(LStrip(lines[i + 1]))
    /\ RStrip(lines[i]) # <<>>
    /\ ~EndsWithBracket(RStrip(lines[i]))
SoftBreak(lines, i) ==
    /\ ~SkipPattern(LStrip(lines[i + 1]))
    /\ RStrip(lines[i]) # <<>>
    /\ StartsLowercase(LStrip(lines[i + 1]))
    /\ ~EndsWithBracket(RStrip(lines[i]))

\* the while loop from line i on (1-based), with the lines as merged so far
RECURSIVE SoftLoop(_, _, _)
SoftLoop(lines, i, kept) ==
    IF i > Len(lines) THEN kept
    ELSE IF i = Len(lines) THEN SoftLoop(lines, i + 1, Append(kept, lines[i]))
    ELSE IF LStrip(lines[i + 1]) = <<>>
    THEN IF FakeParagraphBreak(lines, i)
         THEN SoftLoop([lines EXCEPT ![i + 2] =
                           RStrip(lines[i]) \o <<" ">> \o LStrip(lines[i + 2])],
                       i + 2, kept)
         ELSE SoftLoop(lines, i + 1, Append(kept, lines[i]))
    ELSE IF SoftBreak(lines, i)
    THEN SoftLoop([lines EXCEPT ![i + 1] =
                      RStrip(lines[i]) \o <<" ">> \o LStrip(lines[i + 1])],
                  i + 1, kept)
    ELSE SoftLoop(lines, i + 1, Append(kept, lines[i]))

merge_soft_linebreaks(md) ==
    IF md = <<>> THEN <<>>
    ELSE LET extracted == _extract_code_blocks(md, <<>>)
             kept == SoftLoop(SplitLines(extracted.text), 1, <<>>)
         IN  _restore_code_blocks(Join(<<NL>>, kept), extracted.storage)

-----------------------------------------------------------------------------
(* Calls of normalize: once on the input, once more on the result.         *)

\* what the markdown handed to normalize() is made of: fences, line ends of
\* both kinds, text, blanks, a heading mark, a bullet mark, and the text of a
\* placeholder
NormPieces ==
    { FENCE, Append(FENCE, NL), <<NL>>, <<CR>>, <<"a">>, <<" ">>, <<"#", " ">>,
      <<"*">>, <<Placeholder(1)>> }

\* the markdown of test_preserve_code_blocks in short, and a code block that
\* holds the text of the placeholder of the block after it
TestMarkdowns ==
    { <<"a", NL>> \o FENCE \o <<"p", "y", NL, "*", " ", "b", NL, "+", " ", "c", NL>>
          \o FENCE \o <<NL, "d">>,
      FENCE \o <<NL, Placeholder(1), NL>> \o FENCE \o <<NL>>
          \o FENCE \o <<NL, "b", NL>> \o FENCE }

RECURSIVE Concat(_)
Concat(parts) == IF parts = <<>> THEN <<>> ELSE Head(parts) \o Concat(Tail(parts))

NormInputs ==
    {Concat(l) : l \in SeqsOver(NormPieces, MaxPieces)} \cup TestMarkdowns

InitNormalize ==
    /\ pc = "call"
    /\ text_in \in NormInputs
    /\ normalized = <<>>
    /\ renormalized = <<>>
    /\ relined = <<>>
    /\ chunks = <<>>
    /\ passed = <<>>
    /\ min_chars = 0
    /\ max_chars = 0
    /\ result = <<>>
    /\ analyzer = IdleAnalyzer
    /\ an_chunk = IdleChunk
    /\ quality = NoQuality
    /\ IdleRun
    /\ IdleSvc

Normalize ==
    /\ pc = "call"
    /\ pc' = "normalized"
    /\ normalized' = normalize(text_in)
    /\ UNCHANGED <<text_in, renormalized, relined, mergeVars, analyzeVars, runVars, svcVars>>

Renormalize ==
    /\ pc = "normalized"
    /\ pc' = "renormalized"
    /\ renormalized' = normalize(normalized)
    /\ UNCHANGED <<text_in, normalized, relined, mergeVars, analyzeVars, runVars, svcVars>>

NextNormalize == Normalize \/ Renormalize

SpecNormalize == InitNormalize /\ [][NextNormalize]_vars

\* C14 (idempotence): normalize(normalize(x)) = normalize(x).
C14_NormalizeIdempotent ==
    pc = "renormalized" => renormalized = normalized

\* the fenced code blocks of a text, as _CODE_BLOCK_PATTERN finds them
CodeBlocks(text) == _extract_code_blocks(text, <<>>).storage

\* every backtick of the text is in a fence of three that starts a line
FencesStartLines(text) ==
    \A q \in 1..Len(text) :
        text[q] = TICK =>
            \E p \in {q - 2, q - 1, q} :
                /\ p >= 1
                /\ p + 2 <= Len(text)
                /\ SubSeq(text, p, p + 2) = FENCE
                /\ (p = 1 \/ text[p - 1] = NL)
                /\ (p + 3 > Len(text) \/ text[p + 3] # TICK)

\* C15 (code-block invariance): every fenced code block of the input (here:
\* of an input whose fences all start a line, without carriage returns) is
\* in the normalized text as it was, character for character.
C15_CodeBlocksIntact ==
    (/\ pc = "normalized"
     /\ ~Contains(text_in, <<CR>>)
     /\ FencesStartLines(text_in)) =>
        \A k \in 1..Len(CodeBlocks(text_in)) :
            Contains(normalized, CodeBlocks(text_in)[k])

-----------------------------------------------------------------------------
(* Calls of merge_soft_linebreaks.                                         *)

\* the lines the markdown handed to merge_soft_linebreaks() is made of: blank
\* lines, text that starts in lower or upper case, with blanks around it,
\* with the ends of a sentence and of a bracket, lines in markdown syntax,
\* and a fenced code block
SoftLines ==
    { <<>>, <<" ">>, <<"a">>, <<"b", "c">>, <<" ", "a">>, <<"a", " ">>, <<"a", ".">>,
      <<"a", ":">>, <<"a", ")">>, <<"a", "]">>, <<"A">>, <<"-", " ", "a">>,
      <<"#", " ", "a">>, <<"1", ".", " ", "a">>, <<">", "a">>, <<"|", "a">>,
      FENCE \o <<NL, "b", NL>> \o FENCE }

SoftInputs ==
    {Join(<<NL>>, l) : l \in SeqsOver(SoftLines, MaxLines)}

InitLinebreaks ==
    /\ pc = "call"
    /\ text_in \in SoftInputs
    /\ normalized = <<>>
    /\ renormalized = <<>>
    /\ relined = <<>>
    /\ chunks = <<>>
    /\ passed = <<>>
    /\ min_chars = 0
    /\ max_chars = 0
    /\ result = <<>>
    /\ analyzer = IdleAnalyzer
    /\ an_chunk = IdleChunk
    /\ quality = NoQuality
    /\ IdleRun
    /\ IdleSvc

MergeSoftLinebreaks ==
    /\ pc = "call"
    /\ pc' = "relined"
    /\ relined' = merge_soft_linebreaks(text_in)
    /\ UNCHANGED <<text_in, normalized, renormalized, mergeVars, analyzeVars, runVars, svcVars>>

NextLinebreaks == MergeSoftLinebreaks

SpecLinebreaks == InitLinebreaks /\ [][NextLinebreaks]_vars

\* the lines of a text outside its code blocks, a code block standing in its
\* line as one symbol
OuterLines(text) == SplitLines(_extract_code_blocks(text, <<>>).text)

\* the text made of the lines when the line breaks marked in removed are
\* replaced by one space (and the blanks around them dropped) and the other
\* line breaks are kept
RECURSIVE JoinLines(_, _, _, _)
JoinLines(lines, removed, i, current) ==
    IF i >= Len(lines) THEN current
    ELSE IF removed[i]
    THEN JoinLines(lines, removed, i + 1,
                   RStrip(current) \o <<" ">> \o LStrip(lines[i + 1]))
    ELSE current \o <<NL>> \o JoinLines(lines, removed, i + 1, lines[i + 1])

Rejoined(text, removed) ==
    LET lines == OuterLines(text)
    IN  _restore_code_blocks(JoinLines(lines, removed, 1, lines[1]),
                             CodeBlocks(text))

\* the rule of the merge for the lines i and i+1
LowercaseRule(lines, i) ==
    /\ StartsLowercase(LStrip(lines[i + 1]))
    /\ ~EndsWithBracket(RStrip(lines[i]))

\* line i is non-blank
NonBlank(lines, i) == Strip(lines[i]) # <<>>

\* line i is a single blank line between a line that ends neither a sentence
\* nor a bracket and a line that starts in lower case
LoneBlank(lines, i) ==
    /\ i >= 2
    /\ i + 1 <= Len(lines)
    /\ ~NonBlank(lines, i)
    /\ NonBlank(lines, i - 1)
    /\ ~EndsSentence(RStrip(lines[i - 1]))
    /\ ~EndsWithBracket(RStrip(lines[i - 1]))
    /\ StartsLowercase(LStrip(lines[i + 1]))

\* C16 as stated: the line break between two adjacent lines outside code
\* blocks is replaced by a single space if and only if the next line starts
\* with a lowercase letter and the current line does not end with a closing
\* bracket; every other line break is preserved.
C16_LowercaseRuleOnly ==
    pc = "relined" /\ text_in # <<>> =>
        LET lines == OuterLines(text_in)
        IN  relined = Rejoined(text_in,
                               [i \in 1..(Len(lines) - 1) |-> LowercaseRule(lines, i)])

\* C16 (decision rule, amended): the line break between two adjacent non-blank
\* lines outside code blocks is replaced by a single space if and only if the
\* next line, after its leading blanks, starts with a lowercase letter and the
\* current line does not end with a closing bracket; the two line breaks
\* around a single blank line are removed if and only if the line before it
\* is non-blank and ends with none of . ! ? : ] ) and the line after it starts
\* with a lowercase letter; every other line break is preserved.
C16_DecisionRule ==
    pc = "relined" /\ text_in # <<>> =>
        LET lines == OuterLines(text_in)
            removed == [i \in 1..(Len(lines) - 1) |->
                           \/ /\ NonBlank(lines, i)
                              /\ NonBlank(lines, i + 1)
                              /\ LowercaseRule(lines, i)
                           \/ LoneBlank(lines, i)
                           \/ LoneBlank(lines, i + 1)]
        IN  relined = Rejoined(text_in, removed)

\* three lines, the second joined to the first, the third kept on its own line
C16_Witness ==
    /\ pc = "relined"
    /\ LET lines == OuterLines(text_in)
       IN  /\ Len(lines) = 3
           /\ NonBlank(lines, 1) /\ NonBlank(lines, 2) /\ NonBlank(lines, 3)
           /\ LowercaseRule(lines, 1)
           /\ ~LowercaseRule(lines, 2)
           /\ Len(SplitLines(relined)) = 2

-----------------------------------------------------------------------------
(* Construction of the pipeline from a profile whose values may be out of  *)
(* range, and the first calls on what was constructed.                     *)

\* RecursiveCharacterTextSplitter(chunk_size, chunk_overlap) raises
\* ValueError when the overlap is larger than the chunk size
SplitterRejects(chunk_size, chunk_overlap) == chunk_overlap > chunk_size

\* some versions of the splitter also raise for a chunk size that is not
\* positive
SplitterMayReject(chunk_size, chunk_overlap) ==
    SplitterRejects(chunk_size, chunk_overlap) \/ chunk_size <= 0

\* "min(1.0, char_count / self.ideal_length)" raises ZeroDivisionError; the
\* empty text is returned before it
AnalyzeRaises(cfg, content) == Strip(content) # <<>> /\ cfg.ideal_length = 0

\* profiles with values in and out of range
ProfileValues ==
    [autoFixEnabled : {FALSE}, qualityMinChars : {-1, 3}, qualityMaxChars : {0, 8},
     qualityPenaltyPerFlag : {DefaultPenalty}, documentChunkSize : {0, 3},
     documentChunkOverlap : {0, 5}, documentHeaderLevels : {0, 3, 7},
     presentationMinChunk : {0, 200}, tabularRowsPerChunk : {-1, 0, 2}]

InitConfig ==
    /\ pc = "new"
    /\ config \in ProfileValues
    /\ markdown \in Markdowns("tabular")
    /\ an_chunk \in {[content |-> <<"H", "i", ".">>, breadcrumbs |-> <<>>],
                     [content |-> <<" ">>, breadcrumbs |-> <<>>]}
    /\ category = "tabular"
    /\ analyzer = IdleAnalyzer
    /\ quality = NoQuality
    /\ fragments = <<>>
    /\ work = <<>>
    /\ embedder = IdleEmbedder
    /\ run_result = NoResult
    /\ chunks = <<>>
    /\ passed = <<>>
    /\ min_chars = 0
    /\ max_chars = 0
    /\ result = <<>>
    /\ IdleNorm
    /\ IdleSvc

\* ProcessingPipeline.__init__ returns: the values are stored as given (the
\* header levels clamped by the document chunker)
ConfigConstruct ==
    /\ pc = "new"
    /\ ~SplitterRejects(config.documentChunkSize, config.documentChunkOverlap)
    /\ pc' = "constructed"
    /\ analyzer' = PipelineAnalyzer(config)
    /\ config' = [config EXCEPT !.documentHeaderLevels = ClampLevels(@)]
    /\ UNCHANGED <<an_chunk, quality, markdown, category, fragments, work,
                   embedder, run_result, mergeVars, normVars, svcVars>>

\* ProcessingPipeline.__init__ raises out of DocumentChunker.__init__
ConfigRejected ==
    /\ pc = "new"
    /\ SplitterMayReject(config.documentChunkSize, config.documentChunkOverlap)
    /\ pc' = "construct_raised"
    /\ UNCHANGED <<analyzeVars, runVars, mergeVars, normVars, svcVars>>

\* self.tabular_chunker.chunk(markdown)
ConfigChunk ==
    /\ pc = "constructed"
    /\ LET chunked == TabularChunk(markdown, config.tabularRowsPerChunk) IN
       /\ pc' = IF chunked.ok THEN "chunked" ELSE "chunk_raised"
       /\ fragments' = chunked.chunks
    /\ UNCHANGED <<analyzeVars, markdown, category, config, work, embedder,
                   run_result, mergeVars, normVars, svcVars>>

\* self.analyzer.analyze(chunk)
ConfigAnalyze ==
    /\ pc = "constructed"
    /\ IF AnalyzeRaises(analyzer, an_chunk.content)
       THEN pc' = "analyze_raised" /\ UNCHANGED quality
       ELSE /\ pc' = "analyzed"
            /\ quality' = analyze(analyzer, an_chunk.content, an_chunk.breadcrumbs)
    /\ UNCHANGED <<analyzer, an_chunk, runVars, mergeVars, normVars, svcVars>>

NextConfig == ConfigConstruct \/ ConfigRejected \/ ConfigChunk \/ ConfigAnalyze

SpecConfig == InitConfig /\ [][NextConfig]_vars

\* C17 (configuration is clamped, never an error): no value of the profile,
\* in range or out of it, makes the construction of the pipeline raise, or a
\* later call of chunk() or analyze() on what was constructed.
C17_NoConfigError ==
    pc \notin {"construct_raised", "chunk_raised", "analyze_raised"}

-----------------------------------------------------------------------------
(* The input of merge_small_chunks after the call.                         *)

\* C18 (the merge stage is pure): when merge_small_chunks has returned, the
\* fragments of the list that was passed to it, their content and their
\* metadata, are as they were when the call was made.
C18_InputUntouched ==
    pc = "returned" => chunks = passed

-----------------------------------------------------------------------------
(* Calls of PresentationChunker.chunk on the markdown of a presentation.   *)

MaxSlides == 3

\* presentations of up to MaxSlides slides, as the PPTX converter writes them
SlideDecks ==
    {Join(ConverterSlideMarker, l) : l \in SeqsOver(Slides, MaxSlides)}

\* min_chunk_size: every slide on its own, two short slides, the default
MinChunkSizes == {0, 3, 200}

InitPresentation ==
    /\ pc = "call"
    /\ markdown \in SlideDecks
    /\ category = "presentation"
    /\ config \in {[IdleConfig EXCEPT !.presentationMinChunk = m] : m \in MinChunkSizes}
    /\ fragments = <<>>
    /\ work = <<>>
    /\ embedder = IdleEmbedder
    /\ run_result = NoResult
    /\ analyzer = IdleAnalyzer
    /\ an_chunk = IdleChunk
    /\ quality = NoQuality
    /\ chunks = <<>>
    /\ passed = <<>>
    /\ min_chars = 0
    /\ max_chars = 0
    /\ result = <<>>
    /\ IdleNorm
    /\ IdleSvc

\* PresentationChunker(min_chunk_size).chunk(markdown)
PresentationCall ==
    /\ pc = "call"
    /\ LET chunked == PresentationChunk(markdown, config.presentationMinChunk) IN
       /\ pc' = IF chunked.ok THEN "chunked" ELSE "chunk_raised"
       /\ fragments' = chunked.chunks
    /\ UNCHANGED <<markdown, category, config, work, embedder, run_result,
                   analyzeVars, mergeVars, normVars, svcVars>>

NextPresentation == PresentationCall

SpecPresentation == InitPresentation /\ [][NextPresentation]_vars

\* the slides of a presentation, and the numbers of those that are not blank,
\* in order
DeckSlides(text) == SplitOn(text, ConverterSlideMarker)

RECURSIVE NonBlankFrom(_, _)
NonBlankFrom(slides, i) ==
    IF i > Len(slides) THEN <<>>
    ELSE (IF Strip(slides[i]) # <<>> THEN <<i>> ELSE <<>>)
         \o NonBlankFrom(slides, i + 1)

\* the slide numbers of the fragments, one after the other
RECURSIVE AllSlideNumbers(_)
AllSlideNumbers(frags) ==
    IF frags = <<>> THEN <<>>
    ELSE Head(frags).slide_numbers \o AllSlideNumbers(Tail(frags))

\* C19 (PresentationChunker.chunk): the call returns; the slide numbers of
\* the fragments, one after the other, are the numbers of the non-blank slides
\* in order, each once; a fragment is its slides joined by blank lines; every
\* fragment but the last has at least min_chunk_size characters of slides.
C19_SlidesGrouped ==
    /\ pc # "chunk_raised"
    /\ pc = "chunked" =>
          LET slides == DeckSlides(markdown) IN
          /\ AllSlideNumbers(fragments) = NonBlankFrom(slides, 1)
          /\ \A k \in 1..Len(fragments) :
                LET numbers == fragments[k].slide_numbers
                    texts == [j \in 1..Len(numbers) |-> Strip(slides[numbers[j]])]
                IN  /\ fragments[k].content = Join(SEP, texts)
                    /\ fragments[k].slide_number = numbers[1]
                    /\ (k < Len(fragments) =>
                           TotalSize(texts) >= config.presentationMinChunk)

-----------------------------------------------------------------------------
(* Calls of TabularChunker.chunk on the markdown of a workbook.            *)

MaxRows == 5

\* the rows of a sheet in sentence format, one paragraph each
SheetRows ==
    <<<<"a", ".">>, <<"b", ".">>, <<"c", ".">>, <<"d", ".">>, <<"e", ".">>, <<"f", ".">>>>

\* a Markdown table of one row
SheetTable ==
    <<"|", "a", "|", "b", "|", NL, "|", "-", "-", "-", "|", NL, "|", "1", "|", "2", "|">>

\* sheets: up to MaxRows rows or a table, with the name of the sheet as a
\* heading or without it; two rows with blank paragraphs between them
Sheets ==
    LET bodies == {Join(SEP, SubSeq(SheetRows, 1, n)) : n \in 0..MaxRows}
                  \cup {SheetTable, <<"a", ".", NL, NL, NL, NL, "b", ".">>}
    IN  bodies \cup {<<"#", " ", "S", NL, NL>> \o body : body \in bodies}

Workbooks ==
    {Join(SheetSeparator, l) : l \in SeqsOver(Sheets, MaxSections)}

\* rows_per_chunk of the tests (2), one row a chunk, and three
RowsPerChunk == {1, 2, 3}

InitTabular ==
    /\ pc = "call"
    /\ markdown \in Workbooks
    /\ category = "tabular"
    /\ config \in {[IdleConfig EXCEPT !.tabularRowsPerChunk = n] : n \in RowsPerChunk}
    /\ fragments = <<>>
    /\ work = <<>>
    /\ embedder = IdleEmbedder
    /\ run_result = NoResult
    /\ analyzer = IdleAnalyzer
    /\ an_chunk = IdleChunk
    /\ quality = NoQuality
    /\ chunks = <<>>
    /\ passed = <<>>
    /\ min_chars = 0
    /\ max_chars = 0
    /\ result = <<>>
    /\ IdleNorm
    /\ IdleSvc

\* TabularChunker(rows_per_chunk).chunk(markdown)
TabularCall ==
    /\ pc = "call"
    /\ LET chunked == TabularChunk(markdown, config.tabularRowsPerChunk) IN
       /\ pc' = IF chunked.ok THEN "chunked" ELSE "chunk_raised"
       /\ fragments' = chunked.chunks
    /\ UNCHANGED <<markdown, category, config, work, embedder, run_result,
                   analyzeVars, mergeVars, normVars, svcVars>>

NextTabular == TabularCall

SpecTabular == InitTabular /\ [][NextTabular]_vars

\* the sections of the markdown, as chunk() finds them
SectionsOf(text) == IF IsBlank(text) THEN <<>> ELSE TabularSections(text)

\* the rows (paragraphs) of a section that is not a table
SectionRows(section) ==
    IF ContentText(section) = <<>> \/ IsMarkdownTable(section) THEN <<>>
    ELSE Rows(ContentText(section))

\* the number of fragments a section is due: one for a table, one for every
\* rows_per_chunk rows otherwise, the last with the rows that are left
FragmentsDue(section, rows_per_chunk) ==
    IF IsMarkdownTable(section) THEN 1
    ELSE (Len(SectionRows(section)) + rows_per_chunk - 1) \div rows_per_chunk

\* the number of fragments due to the sections before section k
RECURSIVE FragmentsBefore(_, _, _)
FragmentsBefore(sections, k, rows_per_chunk) ==
    IF k <= 1 THEN 0
    ELSE FragmentsBefore(sections, k - 1, rows_per_chunk)
         + FragmentsDue(sections[k - 1], rows_per_chunk)

\* the sheet heading of a section and the blank line after it
HeadingPrefix(section) ==
    IF HasHeading(section) THEN SplitLines(section)[1] \o SEP ELSE <<>>

\* the rows a fragment of the section holds: its paragraphs after the heading
RowsHeld(frag, section) ==
    SplitOn(SubSeq(frag.content, Len(HeadingPrefix(section)) + 1, Len(frag.content)),
            SEP)

RECURSIVE RowsHeldFrom(_, _, _, _)
RowsHeldFrom(frags, from, n, section) ==
    IF n = 0 THEN <<>>
    ELSE RowsHeld(frags[from], section)
         \o RowsHeldFrom(frags, from + 1, n - 1, section)

\* C20 (TabularChunker row batching): the fragments are those of the
\* sections, section after section. The fragments of a section that is not a
\* Markdown table hold its rows, each row once and in order; each holds at
\* most rows_per_chunk rows and each but the last of the section exactly
\* rows_per_chunk; each starts with the sheet heading when the section has
\* one. A section taken for a Markdown table is one fragment, the section.
C20_RowBatching ==
    pc = "chunked" =>
        LET sections == SectionsOf(markdown)
            n == config.tabularRowsPerChunk
        IN  /\ Len(fragments) = FragmentsBefore(sections, Len(sections) + 1, n)
            /\ \A k \in 1..Len(sections) :
                  LET first == FragmentsBefore(sections, k, n) + 1
                      due == FragmentsDue(sections[k], n)
                  IN  IF IsMarkdownTable(sections[k])
                      THEN fragments[first].content = sections[k]
                      ELSE /\ RowsHeldFrom(fragments, first, due, sections[k])
                                = SectionRows(sections[k])
                           /\ \A j \in first..(first + due - 1) :
                                 /\ StartsWith(fragments[j].content,
                                               HeadingPrefix(sections[k]))
                                 /\ Len(RowsHeld(fragments[j], sections[k])) <= n
                                 /\ (j < first + due - 1 =>
                                        Len(RowsHeld(fragments[j], sections[k])) = n)

\* a sheet with a heading and more rows than two chunks hold, cut in three
C20_Witness ==
    /\ pc = "chunked"
    /\ \E k \in 1..Len(SectionsOf(markdown)) :
          LET section == SectionsOf(markdown)[k] IN
          /\ HasHeading(section)
          /\ ~IsMarkdownTable(section)
          /\ Len(SectionRows(section)) > 2 * config.tabularRowsPerChunk
          /\ config.tabularRowsPerChunk >= 2
          /\ Len(SectionRows(section)) % config.tabularRowsPerChunk # 0
    /\ Len(fragments) >= 3

-----------------------------------------------------------------------------
(* PDFProcessor.process: concurrent calls on one instance.  The calls are   *)
(* tasks of one event loop: a task runs until it awaits something that is   *)
(* not ready (the semaphore when it is locked, the conversion thread).      *)

MaxCallers == 3

Callers == 1..MaxCallers

\* what the file of a call is: not there, password-protected, converted
\* without error, or making the conversion raise
FileKinds == {"missing", "protected", "good", "corrupt"}

\* ProcessingResult of a call (the fields the handlers read)
NoProcessingResult == [success |-> FALSE, error_code |-> "none"]
Succeeded == [success |-> TRUE, error_code |-> "none"]
Failed(error_code) == [success |-> FALSE, error_code |-> error_code]

\* max_workers = max(1, settings.max_workers)
WorkersPlusOne(max_workers) == max_workers + 1
Workers(max_workers) == Max2(1, max_workers)

\* _get_semaphore: the semaphore of the instance, created at the first call
\* unless one is set
GetSemaphore(proc) ==
    IF proc.installed THEN proc
    ELSE [proc EXCEPT !.installed = TRUE,
                      !.capacity = Workers(proc.max_workers),
                      !.value = Workers(proc.max_workers)]

\* asyncio.Semaphore.locked()
Locked(proc) == proc.value = 0 \/ proc.waiters # <<>>

\* asyncio.Semaphore.release(): the slot goes to the first waiter, which is
\* woken up, or back to the counter
ReleaseCounterOnly(proc) == [proc EXCEPT !.value = @ + 1]
Release(proc) ==
    IF proc.waiters # <<>>
    THEN [proc EXCEPT !.waiters = Tail(@),
                      !.calls[Head(proc.waiters)].state = "admitted"]
    ELSE [proc EXCEPT !.value = @ + 1]

\* _process_internal up to its first await, and to its return when it has
\* none (lines 90-105): a missing or protected file is answered at once and
\* "async with" releases the semaphore
EnterInternal(proc, c) ==
    LET file == proc.calls[c].file IN
    IF file = "missing"
    THEN Release([proc EXCEPT !.calls[c].state = "returned",
                              !.calls[c].result = Failed("CORRUPT_FILE")])
    ELSE IF file = "protected"
    THEN Release([proc EXCEPT !.calls[c].state = "returned",
                              !.calls[c].result = Failed("PASSWORD_PROTECTED")])
    ELSE [proc EXCEPT !.calls[c].state = "converting"]

\* the processor of the service: no semaphore yet, and settings.max_workers;
\* the processor of the tests: asyncio.Semaphore(n) set on the instance
\* (preset is n, 0 when none was set)
Processors ==
    {[max_workers |-> w, preset |-> 0, installed |-> FALSE, capacity |-> 0,
      value |-> 0, waiters |-> <<>>,
      calls |-> [c \in Callers |-> [file |-> files[c], state |-> "idle",
                                    waited |-> FALSE,
                                    result |-> NoProcessingResult]]] :
        w \in {0, 2}, files \in [Callers -> FileKinds]}
    \cup
    {[max_workers |-> 1, preset |-> n, installed |-> TRUE, capacity |-> n,
      value |-> n, waiters |-> <<>>,
      calls |-> [c \in Callers |-> [file |-> files[c], state |-> "idle",
                                    waited |-> FALSE,
                                    result |-> NoProcessingResult]]] :
        n \in {2}, files \in [Callers -> FileKinds]}

InitProcessor ==
    /\ pc = "serving"
    /\ pdf_processor \in Processors
    /\ request = IdleRequest
    /\ chunks = <<>>
    /\ passed = <<>>
    /\ min_chars = 0
    /\ max_chars = 0
    /\ result = <<>>
    /\ analyzer = IdleAnalyzer
    /\ an_chunk = IdleChunk
    /\ quality = NoQuality
    /\ IdleRun
    /\ IdleNorm

\* "async with self._get_semaphore()": the call goes on into
\* _process_internal when the semaphore is not locked, and waits otherwise
ProcessCall(c) ==
    /\ pdf_processor.calls[c].state = "idle"
    /\ LET proc == GetSemaphore(pdf_processor) IN
       pdf_processor' =
           IF Locked(proc)
           THEN [proc EXCEPT !.waiters = Append(@, c), !.calls[c].state = "waiting",
                             !.calls[c].waited = TRUE]
           ELSE EnterInternal([proc EXCEPT !.value = @ - 1], c)
    /\ UNCHANGED <<pc, request, mergeVars, analyzeVars, runVars, normVars>>

\* a woken waiter runs again
ProcessResume(c) ==
    /\ pdf_processor.calls[c].state = "admitted"
    /\ pdf_processor' = EnterInternal(pdf_processor, c)
    /\ UNCHANGED <<pc, request, mergeVars, analyzeVars, runVars, normVars>>

\* "await asyncio.to_thread(converter.convert, ...)" is over: the result is
\* built, or the exception caught (lines 107-155), and the semaphore released
ProcessConverted(c) ==
    /\ pdf_processor.calls[c].state = "converting"
    /\ LET outcome == IF pdf_processor.calls[c].file = "good" THEN Succeeded
                      ELSE Failed("CORRUPT_FILE")
       IN  pdf_processor' =
               Release([pdf_processor EXCEPT !.calls[c].state = "returned",
                                             !.calls[c].result = outcome])
    /\ UNCHANGED <<pc, request, mergeVars, analyzeVars, runVars, normVars>>

NextProcessor ==
    \E c \in Callers : ProcessCall(c) \/ ProcessResume(c) \/ ProcessConverted(c)

SpecProcessor == InitProcessor /\ [][NextProcessor]_vars

\* the calls that are inside _process_internal
Converting == {c \in Callers : pdf_processor.calls[c].state = "converting"}

\* N: the capacity of the semaphore set on the instance, else
\* max(1, settings.max_workers)
SlotLimit ==
    IF pdf_processor.preset > 0 THEN pdf_processor.preset
    ELSE IF pdf_processor.max_workers >= 1 THEN pdf_processor.max_workers ELSE 1

\* C21 (the semaphore bounds the conversions): at any time at most N calls
\* of process() are inside _process_internal.
C21_AtMostNConverting ==
    Cardinality(Converting) <= SlotLimit

\* more callers than slots: N calls are converting and another one waits
C21_Witness ==
    /\ Cardinality(Converting) = SlotLimit
    /\ pdf_processor.waiters # <<>>

\* the event loop runs every task that is ready, and every conversion ends
LiveProcessor ==
    /\ SpecProcessor
    /\ \A c \in Callers : WF_vars(ProcessResume(c)) /\ WF_vars(ProcessConverted(c))

CallState(c) == pdf_processor.calls[c].state

\* C30 (every call returns and gives its slot back): a call of process() that
\* was made eventually returns with a ProcessingResult, whatever its file
\* is and however many calls wait for a slot; and whenever no call that was
\* made is still waiting or converting, all N slots are free.
C30_EveryCallReturns ==
    /\ \A c \in Callers :
          (CallState(c) # "idle")
              ~> (CallState(c) = "returned"
                  /\ pdf_processor.calls[c].result # NoProcessingResult)
    /\ []((pdf_processor.installed
           /\ \A c \in Callers : CallState(c) \in {"idle", "returned"})
          => pdf_processor.value = SlotLimit)

\* all calls have returned, one of them after it waited for a slot, one
\* with a failed result, and the slots are free again
C30_Witness ==
    /\ \A c \in Callers : CallState(c) = "returned"
    /\ \E c \in Callers : pdf_processor.calls[c].waited
    /\ \E c \in Callers : ~pdf_processor.calls[c].result.success
    /\ \E c \in Callers : pdf_processor.calls[c].result.success
    /\ pdf_processor.value = SlotLimit

-----------------------------------------------------------------------------
(* The two entry points of the worker: the /process endpoint                *)
(* (process_document) and the queue consumer (process_job).                 *)

\* FORMAT_CATEGORIES of main.py
FormatCategories ==
    [pdf |-> "document", docx |-> "document", txt |-> "document", md |-> "document",
     html |-> "document", epub |-> "document", pptx |-> "presentation",
     xlsx |-> "tabular", csv |-> "tabular", json |-> "tabular"]

SupportedFormats == DOMAIN FormatCategories

\* request.format.lower(), for the formats of the model
Lower(format) == IF format = "PDF" THEN "pdf" ELSE format

\* what processing a document of a format can end in: a ProcessingResult
\* that is a success or a failure, or an exception.  The PDF and the text
\* processor catch what the conversion raises; _process_new_format catches
\* nothing, and its PresentationChunker() raises for every slide deck that
\* is not blank; a format without a processor is a failure.
ProcessOutcomes(file_format) ==
    IF file_format \in {"pdf", "docx", "md", "txt", "json"}
    THEN {"success", "failure"}
    ELSE IF file_format \in {"csv", "html", "xlsx", "epub"}
    THEN {"success", "failure", "raises"}
    ELSE IF file_format = "pptx" THEN {"failure", "raises"}
    ELSE {"unsupported"}

\* the ProcessingResult of an outcome that is not an exception
OutcomeResult(outcome) ==
    IF outcome = "success" THEN Succeeded
    ELSE IF outcome = "unsupported" THEN Failed("UNSUPPORTED_FORMAT")
    ELSE Failed("CORRUPT_FILE")

\* send_callback(document_id, result): the payload of a success reads
\* result.markdown, which ProcessingResult does not have, before the try:
\* AttributeError.  Otherwise True when the backend took the POST, False on
\* every error.
SendCallback(processing_result, backend) ==
    IF processing_result.success THEN "raised"
    ELSE IF backend = "accepts" THEN "true" ELSE "false"

\* no answer yet
NoResponse == [status |-> 0, detail |-> "none", success |-> FALSE]
\* ProcessResponse(status="processed", ...), sent with HTTP 200
Processed(processing_result) ==
    [status |-> 200, detail |-> "processed", success |-> processing_result.success]
\* HTTPException(status_code=500, detail=...)
ServerError(detail) == [status |-> 500, detail |-> detail, success |-> FALSE]
\* the dict process_job returns, and the exception it raises
JobResult(processing_result) ==
    [status |-> 1, detail |-> "result", success |-> processing_result.success]
JobSkipped == [status |-> 1, detail |-> "skipped", success |-> FALSE]
JobRaised(detail) == [status |-> -1, detail |-> detail, success |-> FALSE]

RequestFormats == {"pdf", "PDF", "docx", "md", "csv", "pptx", "xyz"}

Requests ==
    [kind : {"http", "job"}, format : RequestFormats,
     backend : {"accepts", "refuses"}, stage : {"received"},
     processing_result : {NoProcessingResult}, callback : {"none"},
     response : {NoResponse}]

InitHandler ==
    /\ pc = "serving"
    /\ request \in Requests
    /\ pdf_processor = IdleProcessor
    /\ chunks = <<>>
    /\ passed = <<>>
    /\ min_chars = 0
    /\ max_chars = 0
    /\ result = <<>>
    /\ analyzer = IdleAnalyzer
    /\ an_chunk = IdleChunk
    /\ quality = NoQuality
    /\ IdleRun
    /\ IdleNorm

\* process_document up to send_callback (lines 135-160): the processor of
\* the format is run; an exception is answered with HTTP 500
DocumentProcess ==
    /\ request.kind = "http"
    /\ request.stage = "received"
    /\ \E outcome \in ProcessOutcomes(Lower(request.format)) :
          request' =
              IF outcome = "raises"
              THEN [request EXCEPT !.stage = "answered",
                                   !.response = ServerError("error")]
              ELSE [request EXCEPT !.stage = "processed",
                                   !.processing_result = OutcomeResult(outcome)]
    /\ UNCHANGED <<pc, pdf_processor, mergeVars, analyzeVars, runVars, normVars>>

\* process_job up to send_callback (lines 20-43): only PDFs are processed
JobProcess ==
    /\ request.kind = "job"
    /\ request.stage = "received"
    /\ IF request.format # "pdf"
       THEN request' = [request EXCEPT !.stage = "answered", !.response = JobSkipped]
       ELSE \E outcome \in ProcessOutcomes("pdf") :
               request' = [request EXCEPT !.stage = "processed",
                                          !.processing_result = OutcomeResult(outcome)]
    /\ UNCHANGED <<pc, pdf_processor, mergeVars, analyzeVars, runVars, normVars>>

\* "callback_success = await send_callback(...)"
HandlerCallback ==
    /\ request.stage = "processed"
    /\ request' = [request EXCEPT
                      !.stage = "called_back",
                      !.callback = SendCallback(request.processing_result,
                                                request.backend)]
    /\ UNCHANGED <<pc, pdf_processor, mergeVars, analyzeVars, runVars, normVars>>

\* the answer of process_document once send_callback is over (lines
\* 163-206): "if not callback_success: raise HTTPException(500, ...)", and
\* what send_callback raised becomes HTTPException(500, str(e))
DocumentAnswerRegardless(callback, processing_result) ==
    IF callback = "raised" THEN ServerError("error") ELSE Processed(processing_result)
DocumentAnswer(callback, processing_result) ==
    IF callback = "true" THEN Processed(processing_result)
    ELSE IF callback = "false" THEN ServerError("callback")
    ELSE ServerError("error")

\* the outcome of process_job once send_callback is over (lines 46-62)
JobAnswer(callback, processing_result) ==
    IF callback = "true" THEN JobResult(processing_result)
    ELSE IF callback = "false" THEN JobRaised("callback")
    ELSE JobRaised("error")

\* process_document after send_callback
DocumentRespond ==
    /\ request.kind = "http"
    /\ request.stage = "called_back"
    /\ request' =
          [request EXCEPT
              !.stage = "answered",
              !.response = DocumentAnswer(request.callback, request.processing_result)]
    /\ UNCHANGED <<pc, pdf_processor, mergeVars, analyzeVars, runVars, normVars>>

\* process_job after send_callback
JobRespond ==
    /\ request.kind = "job"
    /\ request.stage = "called_back"
    /\ request' =
          [request EXCEPT
              !.stage = "answered",
              !.response = JobAnswer(request.callback, request.processing_result)]
    /\ UNCHANGED <<pc, pdf_processor, mergeVars, analyzeVars, runVars, normVars>>

NextHandler ==
    DocumentProcess \/ JobProcess \/ HandlerCallback \/ DocumentRespond \/ JobRespond

SpecHandler == InitHandler /\ [][NextHandler]_vars

\* C22 (success only after the callback was delivered): the 'processed'
\* answer of process_document and the result dict of process_job are given
\* only when send_callback returned True; when send_callback returned False,
\* process_document answers HTTP 500 and process_job raises.
C22_AnswerAfterCallback ==
    request.stage = "answered" =>
        /\ request.response.detail \in {"processed", "result"}
              => request.callback = "true"
        /\ request.callback = "false"
              => request.response.status \in {500, -1}
        /\ request.callback = "false" /\ request.kind = "http"
              => request.response = ServerError("callback")

\* a request was answered 'processed' after its callback was delivered
C22_Witness ==
    /\ request.stage = "answered"
    /\ request.kind = "http"
    /\ request.callback = "true"
    /\ request.response.status = 200

\* C23 (unsupported format): a /process request with a format that is not
\* supported is answered with HTTP 400 and a detail that mentions
\* 'unsupported'.
C23_UnsupportedIs400 ==
    (/\ request.kind = "http"
     /\ request.stage = "answered"
     /\ Lower(request.format) \notin SupportedFormats) =>
        /\ request.response.status = 400
        /\ request.response.detail = "unsupported"

-----------------------------------------------------------------------------
(* AutoFixer.fix (quality/auto_fix.py), with the analyzer and the sizes of  *)
(* the class: a chunk is [content, breadcrumbs, index].                     *)

MaxFixChunks == 2

MAX_PASSES == 2
MAX_CHUNK_SIZE == 2000

\* c * n
Times(c, n) == [k \in 1..n |-> c]

\* the places where str.split(sep) cuts s, for a sep of two characters:
\* the occurrences of sep taken from left to right without overlap, which
\* in a run of overlapping occurrences are the first, the third, ...
Cuts(s, sep) ==
    LET Match(k) == s[k] = sep[1] /\ s[k + 1] = sep[2]
        matches == {k \in 1..(Len(s) - 1) : Match(k)}
        RunStart(k) == CHOOSE j \in 1..k :
                          /\ \A h \in j..k : h \in matches
                          /\ (j - 1) \notin matches
    IN  IF sep[1] # sep[2] THEN matches
        ELSE {k \in matches : (k - RunStart(k)) % 2 = 0}

\* the members of a set of positions between lo and hi, in ascending order
RECURSIVE Ascending(_, _, _)
Ascending(positions, lo, hi) ==
    IF lo > hi THEN <<>>
    ELSE IF lo = hi THEN (IF lo \in positions THEN <<lo>> ELSE <<>>)
    ELSE LET mid == (lo + hi) \div 2 IN
         Ascending(positions, lo, mid) \o Ascending(positions, mid + 1, hi)

\* str.split(sep) for a sep of two characters
Split(s, sep) ==
    LET cut == Ascending(Cuts(s, sep), 1, Len(s)) IN
    [i \in 1..(Len(cut) + 1) |->
        SubSeq(s, IF i = 1 THEN 1 ELSE cut[i - 1] + 2,
                  IF i = Len(cut) + 1 THEN Len(s) ELSE cut[i] - 1)]

\* s.strip() is not empty
HasText(s) == \E k \in 1..Len(s) : ~IsSpace(s[k])

FixChunk(content, breadcrumbs, index) ==
    [content |-> content, breadcrumbs |-> breadcrumbs, index |-> index]

\* "QualityFlag.X in analysis['flags']" for self.analyzer.analyze(chunk)
Flagged(cfg, chunk, flag) ==
    /\ HasText(chunk.content)
    /\ LET flags == FlagList(cfg, Strip(chunk.content), chunk.breadcrumbs)
       IN  \E k \in 1..Len(flags) : flags[k] = flag

\* [p + "." if not p.endswith(".") else p for p in paragraphs if p.strip()]
Sentences(parts) ==
    LET kept == SelectSeq(parts, HasText) IN
    [i \in 1..Len(kept) |->
        IF EndsWith(kept[i], <<".">>) THEN kept[i] ELSE kept[i] \o <<".">>]

\* the paragraphs _split_chunk works on (lines 70-78)
Paragraphs(content) ==
    LET paragraphs == Split(content, SEP) IN
    IF Len(paragraphs) = 1 THEN Sentences(Split(content, <<".", " ">>))
    ELSE paragraphs

\* the paragraphs lo..hi joined by "\n\n"
RECURSIVE JoinRange(_, _, _)
JoinRange(paragraphs, lo, hi) ==
    IF lo = hi THEN paragraphs[lo]
    ELSE LET mid == (lo + hi) \div 2 IN
         JoinRange(paragraphs, lo, mid) \o SEP \o JoinRange(paragraphs, mid + 1, hi)

\* the sum of the lengths of the paragraphs lo..hi
RECURSIVE LenRange(_, _, _)
LenRange(paragraphs, lo, hi) ==
    IF lo > hi THEN 0
    ELSE IF lo = hi THEN Len(paragraphs[lo])
    ELSE LET mid == (lo + hi) \div 2 IN
         LenRange(paragraphs, lo, mid) + LenRange(paragraphs, mid + 1, hi)

\* the first of the paragraphs i..j that is not empty, or 0: as long as
\* current_content is empty, "test_content = para" starts it anew
FirstKept(paragraphs, i, j) ==
    LET kept == {k \in i..j : paragraphs[k] # <<>>}
    IN  IF kept = {} THEN 0 ELSE CHOOSE k \in kept : \A h \in kept : k <= h

\* current_content once the paragraphs i..j were added to an empty one
\* without a flush, and its length
Current(paragraphs, i, j) ==
    LET first == FirstKept(paragraphs, i, j)
    IN  IF first = 0 THEN <<>> ELSE JoinRange(paragraphs, first, j)
CurrentLen(paragraphs, i, j) ==
    LET first == FirstKept(paragraphs, i, j)
    IN  IF first = 0 THEN 0 ELSE LenRange(paragraphs, first, j) + 2 * (j - first)

\* "len(test_content) > self.MAX_CHUNK_SIZE and current_content" at
\* paragraph j, current_content holding the paragraphs i..j-1
Overflows(paragraphs, i, j) ==
    /\ FirstKept(paragraphs, i, j - 1) # 0
    /\ CurrentLen(paragraphs, i, j) > MAX_CHUNK_SIZE

\* the last paragraph that is added to the current_content started with
\* paragraph i: the one before the first that overflows
LastAdded(paragraphs, i) ==
    LET over == {j \in (i + 1)..Len(paragraphs) :
                    /\ Overflows(paragraphs, i, j)
                    /\ (j = i + 1 \/ ~Overflows(paragraphs, i, j - 1))}
    IN  IF over = {} THEN Len(paragraphs) ELSE (CHOOSE j \in over : TRUE) - 1

\* the loop of _split_chunk (lines 83-94) from the paragraph i that starts
\* a current_content on, one flush at a time, and the flush of what is left
\* (lines 96-102)
RECURSIVE SplitLoop(_, _, _, _)
SplitLoop(paragraphs, i, breadcrumbs, pieces) ==
    IF i > Len(paragraphs) THEN pieces
    ELSE LET j == LastAdded(paragraphs, i)
             current_content == Current(paragraphs, i, j)
         IN  IF j < Len(paragraphs)
             THEN SplitLoop(paragraphs, j + 1, breadcrumbs,
                      Append(pieces, FixChunk(Strip(current_content), breadcrumbs, 0)))
             ELSE IF HasText(current_content)
             THEN Append(pieces, FixChunk(Strip(current_content), breadcrumbs, 0))
             ELSE pieces

\* _split_chunk
_split_chunk(chunk) ==
    LET pieces == SplitLoop(Paragraphs(chunk.content), 1, chunk.breadcrumbs, <<>>)
    IN  IF pieces # <<>> THEN pieces ELSE <<chunk>>

\* "result = [c for c in result if c.get('content', '').strip()]"
RECURSIVE RemoveEmpty(_)
RemoveEmpty(cs) ==
    IF cs = <<>> THEN <<>>
    ELSE IF HasText(Head(cs).content) THEN <<Head(cs)>> \o RemoveEmpty(Tail(cs))
    ELSE RemoveEmpty(Tail(cs))

\* pass 2 of fix (lines 46-53)
RECURSIVE SplitTooLong(_, _)
SplitTooLong(cfg, cs) ==
    IF cs = <<>> THEN <<>>
    ELSE (IF Flagged(cfg, Head(cs), "TOO_LONG") THEN _split_chunk(Head(cs))
          ELSE <<Head(cs)>>) \o SplitTooLong(cfg, Tail(cs))

\* the loop of _merge_short_chunks (lines 114-133) from chunk i on
RECURSIVE MergeShortLoop(_, _, _)
MergeShortLoop(cfg, cs, i) ==
    IF i > Len(cs) THEN <<>>
    ELSE IF Flagged(cfg, cs[i], "TOO_SHORT") /\ i + 1 <= Len(cs)
    THEN <<FixChunk(cs[i].content \o SEP \o cs[i + 1].content, cs[i].breadcrumbs, 0)>>
         \o MergeShortLoop(cfg, cs, i + 2)
    ELSE <<cs[i]>> \o MergeShortLoop(cfg, cs, i + 1)

\* _merge_short_chunks
_merge_short_chunks(cfg, cs) ==
    IF Len(cs) <= 1 THEN cs ELSE MergeShortLoop(cfg, cs, 1)

\* one pass of the loop of fix (lines 41-56)
FixPass(cfg, cs) == _merge_short_chunks(cfg, SplitTooLong(cfg, RemoveEmpty(cs)))

RECURSIVE FixPasses(_, _, _)
FixPasses(cfg, cs, passes) ==
    IF passes = 0 THEN cs ELSE FixPasses(cfg, FixPass(cfg, cs), passes - 1)

\* "chunk['metadata']['index'] = i"
FixReindex(cs) == [k \in 1..Len(cs) |-> [cs[k] EXCEPT !.index = k - 1]]

\* AutoFixer.fix
fix(cfg, cs) ==
    IF cs = <<>> THEN <<>> ELSE FixReindex(FixPasses(cfg, cs, MAX_PASSES))

\* QualityAnalyzer(), the analyzer of AutoFixer.__init__
FixerAnalyzer ==
    [min_chars |-> DefaultMinChars, max_chars |-> DefaultMaxChars,
     ideal_length |-> DefaultIdealLength, penalty_per_flag |-> DefaultPenalty]

\* contents: those of test_auto_fix.py ("Sentence one. " * 200, "Hi.",
\* "   "), and texts at and around the sizes of the class
FixContents ==
    { [k \in 1..(14 * 200) |->
          <<"S", "e", "n", "t", "e", "n", "c", "e", " ", "o", "n", "e", ".", " ">>[((k - 1) % 14) + 1]],
      <<"H", "i", ".">>,
      <<" ", " ", " ">>,
      Times("a", 10),
      Times("b", 2000),
      Times("x", 2001),
      Times("x", 1500) \o <<".", " ">> \o Times("y", 1500),
      Times("p", 1200) \o SEP \o Times("q", 1200) }

RECURSIVE FixLists(_)
FixLists(n) ==
    IF n = 0 THEN {<<>>}
    ELSE LET shorter == FixLists(n - 1) IN
         shorter \cup {Append(l, c) : l \in {u \in shorter : Len(u) = n - 1},
                                      c \in FixContents}

InitAutoFix ==
    /\ pc = "call"
    /\ analyzer = FixerAnalyzer
    /\ \E l \in FixLists(MaxFixChunks) :
          chunks = [k \in 1..Len(l) |-> FixChunk(l[k], <<<<"T">>>>, k - 1)]
    /\ passed = <<>>
    /\ min_chars = 0
    /\ max_chars = 0
    /\ result = <<>>
    /\ an_chunk = IdleChunk
    /\ quality = NoQuality
    /\ IdleRun
    /\ IdleNorm
    /\ IdleSvc

AutoFix ==
    /\ pc = "call"
    /\ pc' = "returned"
    /\ result' = fix(analyzer, chunks)
    /\ UNCHANGED <<chunks, passed, min_chars, max_chars, analyzeVars, runVars>>
    /\ UNCHANGED <<normVars, svcVars>>

NextAutoFix == AutoFix

SpecAutoFix == InitAutoFix /\ [][NextAutoFix]_vars

\* C24 (AutoFixer size bound): after fix(), for any input list, every
\* returned chunk has len(content) <= MAX_CHUNK_SIZE (2000).
C24_FixedWithinMax ==
    pc = "returned" =>
        \A k \in 1..Len(result) : Len(result[k].content) <= MAX_CHUNK_SIZE

-----------------------------------------------------------------------------
(* More properties of merge_small_chunks.                                  *)

\* the state of the loop of merge_small_chunks once the first n fragments
\* of the input were processed
LoopStateAfter(n) ==
    MergeLoop([result |-> <<>>, acc_content |-> <<>>, acc_metadata |-> NoAcc],
              SubSeq(passed, 1, n), 1, min_chars, max_chars)

\* the undersized fragments of a returned list
UndersizedOut == {j \in 1..Len(result) : Len(result[j].content) < min_chars}

\* C25 (undersized only without a merge target): for an input of two or
\* more fragments, a returned fragment shorter than min_chars fits neither
\* with its predecessor nor with its successor in the returned list: each
\* join, the two lengths plus the 2-character separator, exceeds max_chars.
C25_UndersizedHasNoTarget ==
    (pc = "returned" /\ Len(passed) >= 2) =>
        \A j \in UndersizedOut :
            /\ j > 1 =>
                  ~Fits(Len(result[j - 1].content), Len(result[j].content), max_chars)
            /\ j < Len(result) =>
                  ~Fits(Len(result[j].content), Len(result[j + 1].content), max_chars)

\* an undersized fragment was returned between two fragments, and one
\* character less on either side would have let it be joined
C25_Witness ==
    /\ pc = "returned"
    /\ Len(passed) >= 3
    /\ \E j \in UndersizedOut :
          /\ 1 < j /\ j < Len(result)
          /\ Len(result[j - 1].content) + 2 + Len(result[j].content) = max_chars + 1
          /\ Len(result[j].content) + 2 + Len(result[j + 1].content) = max_chars + 1

\* C26 (accumulator flushed at min_chars): at the start of processing every
\* fragment and at the end of the input, a pending accumulator is shorter
\* than min_chars, so a flush of an accumulator that could not be combined
\* never finds it big enough on its own.
C26_AccumulatorBelowMin ==
    (pc = "returned" /\ Len(passed) >= 2) =>
        \A n \in 0..Len(passed) :
            LoopStateAfter(n).acc_content # <<>> =>
                Len(LoopStateAfter(n).acc_content) < min_chars

\* an accumulator of min_chars - 1 characters was pending when a normal
\* fragment that does not fit with it arrived
C26_Witness ==
    /\ pc = "returned"
    /\ \E n \in 1..(Len(passed) - 1) :
          /\ Len(LoopStateAfter(n).acc_content) = min_chars - 1
          /\ min_chars > 1
          /\ IsNormal(Len(passed[n + 1].content), min_chars)
          /\ ~Fits(Len(LoopStateAfter(n).acc_content), Len(passed[n + 1].content),
                   max_chars)

-----------------------------------------------------------------------------
(* The order of the stages of run().                                       *)

\* some chunk of run() carries the keys of the analysis
SomeAnalyzed == \E i \in 1..Len(work) : work[i].analyzed

\* the texts the merge pass left, when there was one
MergedTexts == IF config.autoFixEnabled THEN TextsOf(result) ELSE TextsOf(fragments)

\* C27 (stage order of run): no fragment is analyzed before the merge pass
\* is over, the embedder is called at most once and only when every chunk
\* was analyzed; the qualityScore, qualityFlags, hasTitle and completeness
\* of each returned chunk are what analyze() gives for the chunk's final
\* post-merge content, and the embedded text is that same content.
C27_MergeThenScoreThenEmbed ==
    /\ SomeAnalyzed =>
          /\ pc \in {"analyzed", "returned", "raised"}
          /\ TextsOf(work) = MergedTexts
          /\ \A i \in 1..Len(work) : work[i].analyzed
    /\ embedder.embed_calls <= 1
    /\ embedder.embed_calls = 1 =>
          /\ \A i \in 1..Len(work) : work[i].analyzed
          /\ embedder.texts = MergedTexts
    /\ RunReturned =>
          LET out == run_result.chunks IN
          /\ out # <<>> => TextsOf(out) = MergedTexts
          /\ \A i \in 1..Len(out) :
                LET q == analyze(PipelineAnalyzer(config), out[i].content,
                                 out[i].breadcrumbs)
                IN  /\ out[i].qualityScore = q.score
                    /\ out[i].qualityFlags = q.flags
                    /\ out[i].hasTitle = q.has_title
                    /\ out[i].completeness = q.completeness
                    /\ embedder.texts[i] = out[i].content

\* run() returned after a merge pass that joined fragments, and the score
\* of the joined chunk differs from the score of the fragment it began with
C27_Witness ==
    /\ RunReturned
    /\ config.autoFixEnabled
    /\ Len(result) < Len(passed)
    /\ \E i \in 1..Len(run_result.chunks) :
          /\ Len(run_result.chunks[i].content) > Len(passed[1].content)
          /\ SubSeq(run_result.chunks[i].content, 1, Len(passed[1].content))
                = passed[1].content
          /\ run_result.chunks[i].qualityScore
                # analyze(PipelineAnalyzer(config), passed[1].content,
                          passed[1].breadcrumbs).score

-----------------------------------------------------------------------------
(* Lines in Markdown block syntax and merge_soft_linebreaks.               *)

\* the line breaks in removed touch no line that starts with Markdown block
\* syntax: not the break before such a line or after it, and not the two
\* breaks around a blank line next to it
KeepsSyntaxLines(lines, removed) ==
    \A i \in 1..(Len(lines) - 1) :
        removed[i] =>
            /\ ~SkipPattern(lines[i])
            /\ ~SkipPattern(lines[i + 1])
            /\ (i + 2 <= Len(lines) /\ ~NonBlank(lines, i + 1) /\ removed[i + 1])
                  => ~SkipPattern(lines[i + 2])

\* C28 (Markdown syntax lines are never merged): a line that starts with a
\* heading, a list item, a numbered item, a blockquote or a table row is
\* neither appended to the line before it, also across a single blank line,
\* nor has the line after it appended to it: the result is the input with
\* line breaks removed only between lines that are not of this kind.
C28_SyntaxLinesNeverMerged ==
    pc = "relined" /\ text_in # <<>> =>
        LET lines == OuterLines(text_in)
        IN  \E removed \in [1..(Len(lines) - 1) -> BOOLEAN] :
               /\ KeepsSyntaxLines(lines, removed)
               /\ relined = Rejoined(text_in, removed)

-----------------------------------------------------------------------------
(* The size of the fragments of DocumentChunker.chunk.                     *)

\* C29 (document fragments are bounded): every fragment DocumentChunker.chunk
\* returns has len(content) <= chunk_size, its breadcrumb prefix included,
\* also when a section was split again into pieces that each got the prefix.
C29_FragmentWithinChunkSize ==
    (category = "document" /\ pc = "chunked") =>
        \A i \in 1..Len(fragments) :
            Len(fragments[i].content) <= config.documentChunkSize

====
